---- MODULE Spec2Model ----
(***************************************************************************)
(* Model of the React DevTools profiler-trace analyzer                     *)
(* (src/tools/profiling-analysis/analyze.py) and of the before/after       *)
(* comparison built on it (src/tools/profiling-analysis/compare.py).       *)
(*                                                                         *)
(* A duration of a trace document is a JSON number of milliseconds; the    *)
(* model writes it in thousandths, so 16.67 is 16670.  What the tools      *)
(* compute from it are Python floats, and the model computes them as the   *)
(* interpreter does: float(dur) is the IEEE 754 double nearest to the      *)
(* decimal, and every sum, product, quotient, comparison, round(x, 2) and  *)
(* formatting below is the one of binary64 with round-to-nearest-even, on  *)
(* a float held as sign, 53-bit significand and exponent.  0.03 + 0.29 +   *)
(* 0.18 is 0.49999999999999994 here as it is there.                        *)
(*                                                                         *)
(* A JSON document is modelled structurally:                               *)
(*   trace   [hasRoots, roots]            "dataForRoots" present or not    *)
(*   root    [snapshots, hasCommitData, commitData]                        *)
(*   commit  [fiberSelfDurations, fiberActualDurations, timestamp,         *)
(*            priorityLevel]    timestamp is <<>> (missing) or <<number>>  *)
(*   map     [kind, items]   kind "absent", "dict" or "list"               *)
(*             dict item  [key, val]       key is the JSON string key      *)
(*             list item  [isList, elems]  elems the items of the element  *)
(*   snap    [displayName, name, compiledWithForget]                       *)
(* A string field of a snapshot holds Absent when the key is missing and   *)
(* Null when it is JSON null / Python None.  The first item of a list      *)
(* element is a whole number, a string or Null.  A string that int() is    *)
(* given, a key of a dict item or the first item of a list element, is     *)
(* the sequence of its code points: "12" is <<49, 50>> and "" is <<>>.     *)
(***************************************************************************)
EXTENDS Integers, Sequences, FiniteSets, TLC

VARIABLES
    pc,             \* position of the running tool; "raised" once an exception left it
    session,        \* "before", "after" or "again": which analyze() call is running
    data,           \* the trace document (compare.py: before_data)
    after_data,     \* compare.py: the second trace document
    snapshots,      \* analyze: fid -> snapshot, from build_snapshot_map
    components,     \* analyze: ComponentStats in dict insertion order
    commits,        \* analyze: list of CommitInfo
    total_duration, \* analyze: running sum of commit durations
    all_durations,  \* analyze: commit durations (sorted once the loop is over)
    pos,            \* analyze: <<root number, commit number>> of the next commit
    overall,        \* analyze: the overall dict (NoOverall until computed)
    clusters,       \* analyze: the clusters, each the positions of its commits in commits
    before_result,  \* compare.py: what the first analyze() returned
    overall_rows,   \* compare.py: the rows of compare_overall
    rows,           \* compare.py: the component comparison rows
    percentile_call \* analyze: what percentile(50), percentile(95), percentile(99) returned

vars == <<pc, session, data, after_data, snapshots, components, commits,
          total_duration, all_durations, pos, overall, clusters, before_result,
          overall_rows, rows, percentile_call>>

Max(a, b) == IF a >= b THEN a ELSE b
Min(a, b) == IF a <= b THEN a ELSE b

(***************************************************************************)
(* JSON values                                                             *)
(***************************************************************************)
Absent == "<absent>"
Null == "<null>"

\* Python truthiness of a string-or-None field read with .get().
Truthy(s) == s # Absent /\ s # Null /\ s # ""

\* dict.get(key) for a string field: a missing key reads as None.
Get(s) == IF s = Absent THEN Null ELSE s

AbsentMap == [kind |-> "absent", items |-> <<>>]
DictMap(items) == [kind |-> "dict", items |-> items]
ListMap(items) == [kind |-> "list", items |-> items]
KV(k, v) == [key |-> k, val |-> v]
Pair(k, v) == [isList |-> TRUE, elems |-> <<k, v>>]

\* isinstance(v, str): the value is a sequence of code points.
IsString(v) == SubSeq(ToString(v), 1, 1) = "<"

\* isinstance(v, int)
IsInteger(v) == SubSeq(ToString(v), 1, 1) \in {"-", "0", "1", "2", "3", "4", "5", "6", "7", "8", "9"}

\* The code points of the ten digits zero to nine of a script follow each
\* other; these are the zeros: of ASCII, of the Arabic-Indic digits (U+0660),
\* ... of the fullwidth digits (U+FF10), ... as the Unicode tables of the
\* interpreter (CPython 3.11, Unicode 14) have them.
DigitZeros ==
    {48, 1632, 1776, 1984, 2406, 2534, 2662, 2790, 2918, 3046, 3174, 3302, 3430,
     3558, 3664, 3792, 3872, 4160, 4240, 6112, 6160, 6470, 6608, 6784, 6800, 6992,
     7088, 7232, 7248, 42528, 43216, 43264, 43472, 43504, 43600, 44016, 65296,
     66720, 68912, 69734, 69872, 69942, 70096, 70384, 70736, 70864, 71248, 71360,
     71472, 71904, 72016, 72784, 73040, 73120, 92768, 92864, 93008, 120782, 120792,
     120802, 120812, 120822, 123200, 123632, 125264, 130032}

\* int() reads every Unicode decimal digit.
IsDigit(c) == \E z \in DigitZeros : z <= c /\ c <= z + 9

\* What int() drops at the two ends of the text: \t \n \v \f \r and the
\* blank, and the spaces outside ASCII (U+0085, U+00A0, U+1680, U+2000 to
\* U+200A, U+2028, U+2029, U+202F, U+205F, U+3000).  U+001C to U+001F are
\* not among them.
Whitespace ==
    {9, 10, 11, 12, 13, 32, 133, 160, 5760} \cup (8192..8202)
        \cup {8232, 8233, 8239, 8287, 12288}

RECURSIVE Strip(_)
\* The text without the whitespace at its ends.
Strip(s) ==
    IF s = <<>> THEN s
    ELSE IF s[1] \in Whitespace THEN Strip(Tail(s))
    ELSE IF s[Len(s)] \in Whitespace THEN Strip(SubSeq(s, 1, Len(s) - 1))
    ELSE s

\* The text without a leading sign, + or -.
Unsigned(s) == IF s # <<>> /\ s[1] \in {43, 45} THEN Tail(s) ELSE s

\* Decimal digits, single underscores (95) allowed between two of them.
IsDigits(s) ==
    /\ s # <<>>
    /\ \A i \in 1..Len(s) :
          \/ IsDigit(s[i])
          \/ /\ s[i] = 95
             /\ 1 < i /\ i < Len(s)
             /\ IsDigit(s[i - 1])
             /\ IsDigit(s[i + 1])

RECURSIVE IntOfDigits(_, _)
IntOfDigits(s, acc) ==
    IF s = <<>> THEN acc
    ELSE IF s[1] = 95 THEN IntOfDigits(Tail(s), acc)
    ELSE IntOfDigits(Tail(s),
                     acc * 10 + (s[1] - (CHOOSE z \in DigitZeros : z <= s[1] /\ s[1] <= z + 9)))

\* int(k) of a text that is a decimal literal.
IntOfKey(k) ==
    IF Strip(k)[1] = 45 THEN -IntOfDigits(Unsigned(Strip(k)), 0)
    ELSE IntOfDigits(Unsigned(Strip(k)), 0)

\* int(v) for a fiber identity v as JSON gives it: the number itself, the
\* number a string spells, and no value (ValueError, TypeError) for a string
\* that spells none and for null.  The numbers spelled stay below 2^31.
int(v) ==
    IF IsInteger(v) THEN [raised |-> FALSE, value |-> v]
    ELSE IF IsString(v) /\ IsDigits(Unsigned(Strip(v)))
         THEN [raised |-> FALSE, value |-> IntOfKey(v)]
    ELSE [raised |-> TRUE, value |-> 0]

\* What a call returns or that it raised.
Returned(pairs) == [raised |-> FALSE, pairs |-> pairs]
Raised == [raised |-> TRUE, pairs |-> <<>>]

\* The items of the dict taken last first.
DictPairsReversed(items) ==
    IF \E i \in 1..Len(items) : int(items[i].key).raised THEN Raised
    ELSE Returned([i \in 1..Len(items) |->
                      <<int(items[Len(items) + 1 - i].key).value,
                        items[Len(items) + 1 - i].val>>])

\* iter_pairs for a dict: (int(k), v) in insertion order.
DictPairs(items) ==
    IF \E i \in 1..Len(items) : int(items[i].key).raised THEN Raised
    ELSE Returned([i \in 1..Len(items) |-> <<int(items[i].key).value, items[i].val>>])

\* isinstance(pair, list) and len(pair) >= 2
IsPair(e) == e.isList /\ Len(e.elems) >= 2

\* iter_pairs for a list: (int(pair[0]), pair[1]) for the elements that are
\* lists of >= 2 items.
ListPairs(items) ==
    LET kept == SelectSeq(items, IsPair)
    IN IF \E i \in 1..Len(kept) : int(kept[i].elems[1]).raised THEN Raised
       ELSE Returned([i \in 1..Len(kept) |->
                         <<int(kept[i].elems[1]).value, kept[i].elems[2]>>])

\* iter_pairs(data): what it returns, or that it raised.
iter_pairs(m) ==
    CASE m.kind = "dict" -> DictPairs(m.items)
      [] m.kind = "list" -> ListPairs(m.items)
      [] OTHER -> Returned(<<>>)

\* The pairs of a map iter_pairs returns for.
Pairs(m) == iter_pairs(m).pairs

(***************************************************************************)
(* Natural numbers of any size: the limbs in base 2^15, lowest first, no   *)
(* zero limb at the top; <<>> is 0.                                        *)
(***************************************************************************)
Base == 2 ^ 15
LimbBits == 14 + 1

RECURSIVE NStrip(_)
NStrip(a) ==
    IF a = <<>> THEN a
    ELSE IF a[Len(a)] # 0 THEN a ELSE NStrip(SubSeq(a, 1, Len(a) - 1))

RECURSIVE NOfInt(_)
NOfInt(n) == IF n = 0 THEN <<>> ELSE <<n % Base>> \o NOfInt(n \div Base)

Limb(a, i) == IF i <= Len(a) THEN a[i] ELSE 0

\* a + b: limb by limb from the lowest, with the carry c.
NAdd(a, b) ==
    LET RECURSIVE From(_, _)
        From(i, c) ==
            IF i > Len(a) /\ i > Len(b) THEN (IF c = 0 THEN <<>> ELSE <<c>>)
            ELSE LET x == Limb(a, i) + Limb(b, i) + c
                 IN <<x % Base>> \o From(i + 1, x \div Base)
    IN From(1, 0)

\* a - b, for a >= b.
NSub(a, b) ==
    LET RECURSIVE From(_, _)
        From(i, borrow) ==
            IF i > Len(a) THEN <<>>
            ELSE LET x == a[i] - Limb(b, i) - borrow
                 IN <<IF x < 0 THEN x + Base ELSE x>>
                        \o From(i + 1, IF x < 0 THEN 1 ELSE 0)
    IN NStrip(From(1, 0))

\* -1, 0 or 1 as a is below, equal to or above b.
NCmp(a, b) ==
    LET RECURSIVE From(_)
        From(i) ==
            IF i = 0 THEN 0
            ELSE IF a[i] # b[i] THEN (IF a[i] < b[i] THEN -1 ELSE 1)
            ELSE From(i - 1)
    IN IF Len(a) # Len(b) THEN (IF Len(a) < Len(b) THEN -1 ELSE 1)
       ELSE From(Len(a))

\* a * k for 0 <= k <= Base.
NMulSmall(a, k) ==
    LET RECURSIVE From(_, _)
        From(i, c) ==
            IF i > Len(a) THEN (IF c = 0 THEN <<>> ELSE <<c>>)
            ELSE LET x == a[i] * k + c
                 IN <<x % Base>> \o From(i + 1, x \div Base)
    IN IF k = 0 THEN <<>> ELSE From(1, 0)

\* a * Base^n
NShiftLimbs(a, n) == IF a = <<>> THEN <<>> ELSE [i \in 1..n |-> 0] \o a

RECURSIVE NMul(_, _)
NMul(a, b) ==
    IF a = <<>> \/ b = <<>> THEN <<>>
    ELSE NAdd(NMulSmall(a, b[1]), NShiftLimbs(NMul(a, Tail(b)), 1))

\* Quotient and remainder of a by k, for 0 < k <= Base.
NDivSmall(a, k) ==
    LET RECURSIVE From(_, _)
        Put(rest, digit) == [q |-> Append(rest.q, digit), r |-> rest.r]
        From(i, r) ==
            IF i = 0 THEN [q |-> <<>>, r |-> r]
            ELSE Put(From(i - 1, (r * Base + a[i]) % k), (r * Base + a[i]) \div k)
        Out(d) == [q |-> NStrip(d.q), r |-> d.r]
    IN Out(From(Len(a), 0))

\* a * 2^n
NShl(a, n) == NShiftLimbs(NMulSmall(a, 2 ^ (n % LimbBits)), n \div LimbBits)

\* floor(a / 2^n)
NShr(a, n) ==
    IF n \div LimbBits >= Len(a) THEN <<>>
    ELSE NDivSmall(SubSeq(a, n \div LimbBits + 1, Len(a)), 2 ^ (n % LimbBits)).q

RECURSIVE BitLenSmall(_)
BitLenSmall(x) == IF x = 0 THEN 0 ELSE 1 + BitLenSmall(x \div 2)

NBitLen(a) == IF a = <<>> THEN 0 ELSE LimbBits * (Len(a) - 1) + BitLenSmall(a[Len(a)])

\* floor(cur / bn) for cur < bn * Base, the top limb of bn at least Base / 2:
\* the estimate from the top limbs, lowered until it fits.
DivDigit(cur, bn) ==
    LET RECURSIVE Fix(_)
        Fix(q) == IF NCmp(NMulSmall(bn, q), cur) > 0 THEN Fix(q - 1) ELSE q
        n == Len(bn)
    IN IF NCmp(cur, bn) < 0 THEN 0
       ELSE Fix(Min((Limb(cur, n + 1) * Base + cur[n]) \div bn[n], Base - 1))

\* Quotient and remainder of a by b, for b # 0: long division, limb by limb.
\* b is shifted by s bits to fill its top limb, and a with it.
NDivMod(a, b) ==
    LET RECURSIVE Loop(_, _, _, _)
        Put(rest, d) == [q |-> Append(rest.q, d), r |-> rest.r]
        Digit(an, bn, i, cur, d) == Put(Loop(an, bn, i - 1, NSub(cur, NMulSmall(bn, d))), d)
        Step(an, bn, i, cur) == Digit(an, bn, i, cur, DivDigit(cur, bn))
        Loop(an, bn, i, r) ==
            IF i = 0 THEN [q |-> <<>>, r |-> r]
            ELSE Step(an, bn, i, NStrip(<<an[i]>> \o r))
        Out(res, s) == [q |-> NStrip(res.q), r |-> NShr(res.r, s)]
        Div(an, bn, s) == Out(Loop(an, bn, Len(an), <<>>), s)
        Shifted(s) == Div(NShl(a, s), NShl(b, s), s)
    IN Shifted(LimbBits - BitLenSmall(b[Len(b)]))

\* a / 2^n rounded to the nearest whole number, a tie to the even one; with
\* sticky, a stands for a value between a and a + 1.
\* Low(k) is a mod 2^n, the part shifted out, and c compares it with a half.
NShrRound(a, n, sticky) ==
    LET Low(k) == IF k >= Len(a) THEN a
                  ELSE NStrip(SubSeq(a, 1, k) \o <<a[k + 1] % (2 ^ (n % LimbBits))>>)
        Up(q, c) == IF c > 0 \/ (c = 0 /\ (sticky \/ Limb(q, 1) % 2 = 1))
                    THEN NAdd(q, <<1>>)
                    ELSE q
    IN IF n = 0 THEN a
       ELSE Up(NShr(a, n), NCmp(Low(n \div LimbBits), NShl(<<1>>, n - 1)))

RECURSIVE NToString(_)
NToString(a) ==
    LET Digits(d) == (IF d.q = <<>> THEN "" ELSE NToString(d.q)) \o ToString(d.r)
    IN IF Len(a) <= 1 THEN ToString(Limb(a, 1))
       ELSE Digits(NDivSmall(a, 10))

(***************************************************************************)
(* Python floats: IEEE 754 binary64, round to nearest, ties to even.       *)
(* A float is [neg, m, e]: the value (-1)^neg * m * 2^e with m a natural   *)
(* number of exactly 53 bits, or m = <<>> and e = 0 for a zero.  The        *)
(* exponent is not limited: the durations of a trace stay far from the     *)
(* ends of the range, where a double overflows or loses bits.              *)
(***************************************************************************)
Precision == 52 + 1

Float(neg, m, e) == [neg |-> neg, m |-> m, e |-> e]

FZero(neg) == Float(neg, <<>>, 0)

\* The float nearest to n * 2^s (to a value between n and n + 1 times 2^s
\* with sticky, n then having more than 53 bits).
RoundNat(neg, n, s, sticky) ==
    LET Carry(q, e) == IF NBitLen(q) > Precision
                       THEN Float(neg, NShr(q, 1), e + 1)
                       ELSE Float(neg, q, e)
        Fit(len) == IF len <= Precision
                    THEN Float(neg, NShl(n, Precision - len), s - (Precision - len))
                    ELSE Carry(NShrRound(n, len - Precision, sticky), s + len - Precision)
    IN IF n = <<>> THEN FZero(neg) ELSE Fit(NBitLen(n))

RECURSIVE ZeroLimbs(_)
\* The number of zero limbs at the low end of a # 0.
ZeroLimbs(a) == IF a[1] # 0 THEN 0 ELSE 1 + ZeroLimbs(Tail(a))

RECURSIVE ZeroBits(_)
\* The number of zero bits at the low end of x # 0.
ZeroBits(x) == IF x % 2 = 1 THEN 0 ELSE 1 + ZeroBits(x \div 2)

\* a / Base^ZeroLimbs(a)
Trim(a) == SubSeq(a, ZeroLimbs(a) + 1, Len(a))

\* The float nearest to n / d * 2^s, for natural numbers n and d # 0: the
\* quotient is taken with two bits more than a float holds, and what is
\* left of the division is the sticky bit of the rounding.
\* n is taken with k limbs more.
Quotient(neg, n, d, s) ==
    LET Out(res, k) == RoundNat(neg, res.q, s - k * LimbBits, ~res.exact)
        Small(res) == [q |-> res.q, exact |-> res.r = 0]
        Long(res) == [q |-> res.q, exact |-> res.r = <<>>]
        Scaled(k) == Out(IF Len(d) = 1 THEN Small(NDivSmall(NShiftLimbs(n, k), d[1]))
                         ELSE Long(NDivMod(NShiftLimbs(n, k), d)),
                         k)
    IN IF n = <<>> THEN FZero(neg)
       ELSE Scaled(Max(0, (Precision + 2 + NBitLen(d) - NBitLen(n) + LimbBits - 1)
                              \div LimbBits))

\* The float nearest to n / k, for a divisor 0 < k < Base; n is taken with
\* up limbs more.
FromRatio(neg, n, k) ==
    LET Out(res, up) == RoundNat(neg, res.q, -(up * LimbBits), res.r # 0)
        Scaled(up) == Out(NDivSmall(NShiftLimbs(n, up), k), up)
    IN IF n = <<>> THEN FZero(neg)
       ELSE Scaled(Max(0, (Precision + 2 + BitLenSmall(k) - NBitLen(n) + LimbBits - 1)
                              \div LimbBits))

\* float(i) for a Python int.
FromInt(i) == RoundNat(i < 0, NOfInt(IF i < 0 THEN -i ELSE i), 0, FALSE)

\* The float a JSON number of n thousandths reads as: n = 16670 is 16.67.
FromMicros(n) == FromRatio(n < 0, NOfInt(IF n < 0 THEN -n ELSE n), 1000)

FIsZero(x) == x.m = <<>>

FNeg(x) == [x EXCEPT !.neg = ~x.neg]

\* -1, 0 or 1 as x < y, x == y or x > y; mag compares the magnitudes.
FCmp(x, y) ==
    LET Signed(mag) == IF x.neg THEN -mag ELSE mag
    IN IF FIsZero(x) /\ FIsZero(y) THEN 0
       ELSE IF x.neg # y.neg
            THEN (IF FIsZero(x) THEN (IF y.neg THEN 1 ELSE -1)
                  ELSE IF x.neg THEN -1 ELSE 1)
       ELSE Signed(IF FIsZero(x) \/ FIsZero(y)
                   THEN (IF FIsZero(x) /\ FIsZero(y) THEN 0 ELSE IF FIsZero(x) THEN -1 ELSE 1)
                   ELSE IF x.e # y.e THEN (IF x.e < y.e THEN -1 ELSE 1)
                   ELSE NCmp(x.m, y.m))

FLt(x, y) == FCmp(x, y) < 0
FLe(x, y) == FCmp(x, y) <= 0
FGt(x, y) == FCmp(x, y) > 0
FGe(x, y) == FCmp(x, y) >= 0

\* x + y
FAdd(x, y) ==
    IF FIsZero(x) THEN (IF FIsZero(y) THEN FZero(x.neg /\ y.neg) ELSE y)
    ELSE IF FIsZero(y) THEN x
    ELSE LET Signed(a, b, c) ==
                 IF x.neg # y.neg /\ c = 0 THEN FZero(FALSE)
                 ELSE RoundNat(IF x.neg = y.neg \/ c > 0 THEN x.neg ELSE y.neg,
                               IF x.neg = y.neg THEN NAdd(a, b)
                               ELSE IF c > 0 THEN NSub(a, b) ELSE NSub(b, a),
                               Min(x.e, y.e), FALSE)
             Aligned(a, b) == Signed(a, b, NCmp(a, b))
         IN Aligned(NShl(x.m, x.e - Min(x.e, y.e)), NShl(y.m, y.e - Min(x.e, y.e)))

\* x - y
FSub(x, y) == FAdd(x, FNeg(y))

\* x * y
FMul(x, y) ==
    IF FIsZero(x) \/ FIsZero(y) THEN FZero(x.neg # y.neg)
    ELSE LET Product(a, b) ==
                 RoundNat(x.neg # y.neg,
                          IF Len(a) < Len(b) THEN NMul(b, a) ELSE NMul(a, b),
                          x.e + y.e + LimbBits * (ZeroLimbs(x.m) + ZeroLimbs(y.m)),
                          FALSE)
         IN Product(Trim(x.m), Trim(y.m))

\* x / y for y # 0
FDiv(x, y) ==
    IF FIsZero(x) THEN FZero(x.neg # y.neg)
    ELSE LET Odd(d, z) ==
                 Quotient(x.neg # y.neg, Trim(x.m), NShr(d, z),
                          x.e - y.e + LimbBits * (ZeroLimbs(x.m) - ZeroLimbs(y.m)) - z)
             Trimmed(d) == Odd(d, ZeroBits(d[1]))
         IN Trimmed(Trim(y.m))

\* max(x, y) of Python: y only when it is greater.
FMax(x, y) == IF FGt(y, x) THEN y ELSE x

\* |x| * 10^digits rounded to the nearest whole number, a tie to the even
\* one: the digits of x printed with that many decimals (digits in 0..4).
Decimals(x, digits) ==
    IF FIsZero(x) THEN <<>>
    ELSE IF x.e >= 0 THEN NShl(NMulSmall(x.m, 10 ^ digits), x.e)
    ELSE NShrRound(NMulSmall(x.m, 10 ^ digits), -x.e, FALSE)

\* round(x, 2)
Round2(x) == FromRatio(x.neg, Decimals(x, 2), 100)

\* int(x): the whole part, toward zero.
FTrunc(x) ==
    LET RECURSIVE ToInt(_)
        ToInt(a) == IF a = <<>> THEN 0 ELSE a[1] + Base * ToInt(Tail(a))
        Signed(i) == IF x.neg THEN -i ELSE i
    IN IF FIsZero(x) THEN 0
       ELSE Signed(ToInt(IF x.e >= 0 THEN NShl(x.m, x.e) ELSE NShr(x.m, -x.e)))

\* f"{x:.<digits>f}" for digits in 0..4
FFormat(x, digits) ==
    LET RECURSIVE PadLeft(_)
        PadLeft(t) == IF Len(t) >= digits + 1 THEN t ELSE PadLeft("0" \o t)
        Point(s) == IF digits = 0 THEN s
                    ELSE SubSeq(s, 1, Len(s) - digits) \o "."
                             \o SubSeq(s, Len(s) - digits + 1, Len(s))
    IN (IF x.neg THEN "-" ELSE "") \o Point(PadLeft(NToString(Decimals(x, digits))))
(***************************************************************************)
(* build_snapshot_map                                                      *)
(***************************************************************************)
Roots(d) == IF d.hasRoots THEN d.roots ELSE <<>>

\* The name taken from "name" alone, "displayName" ignored.
SnapNameOnly(snap) == Get(snap.name)

\* name = snap.get("displayName") or snap.get("name")
SnapName(snap) ==
    IF Truthy(snap.displayName) THEN snap.displayName ELSE Get(snap.name)

\* The display name removed once it has been read: snap.pop("displayName").
NormalizeSnapDropsDisplayName(snap) ==
    [snap EXCEPT !.name = SnapName(snap), !.displayName = Absent]

\* snap["name"] = name
NormalizeSnap(snap) == [snap EXCEPT !.name = SnapName(snap)]

\* The snapshot table of one root after the loop body has run on each pair:
\* the snapshot objects live in the document, so the document changes.
NormalizeMap(m) ==
    CASE m.kind = "dict" ->
           [m EXCEPT !.items =
               [i \in 1..Len(m.items) |->
                   [m.items[i] EXCEPT !.val = NormalizeSnap(m.items[i].val)]]]
      [] m.kind = "list" ->
           [m EXCEPT !.items =
               [i \in 1..Len(m.items) |->
                   IF m.items[i].isList /\ Len(m.items[i].elems) >= 2
                   THEN [m.items[i] EXCEPT !.elems[2] = NormalizeSnap(m.items[i].elems[2])]
                   ELSE m.items[i]]]
      [] OTHER -> m

RECURSIVE ReadRoots(_)
\* The roots whose snapshot table the loop gets through: all of them, or
\* those in front of the first root whose table makes iter_pairs raise.
ReadRoots(roots) ==
    IF roots = <<>> \/ iter_pairs(Head(roots).snapshots).raised THEN <<>>
    ELSE <<Head(roots)>> \o ReadRoots(Tail(roots))

\* The document when build_snapshot_map is left, by return or by exception.
NormalizeData(d) ==
    [d EXCEPT !.roots =
        [r \in 1..Len(d.roots) |->
            IF r <= Len(ReadRoots(d.roots))
            THEN [d.roots[r] EXCEPT !.snapshots = NormalizeMap(d.roots[r].snapshots)]
            ELSE d.roots[r]]]

RECURSIVE PutAllKeepFirst(_, _)
\* The assignment done only for a fiber not in the table yet: first write wins.
PutAllKeepFirst(map, pairs) ==
    IF pairs = <<>> THEN map
    ELSE LET fid == Head(pairs)[1]
             snap == NormalizeSnap(Head(pairs)[2])
         IN PutAllKeepFirst(IF fid \in DOMAIN map THEN map
                            ELSE [f \in (DOMAIN map) \cup {fid} |->
                                     IF f = fid THEN snap ELSE map[f]],
                            Tail(pairs))

RECURSIVE PutAll(_, _)
\* snapshots[fid] = snap for each pair in order: a later pair overwrites.
PutAll(map, pairs) ==
    IF pairs = <<>> THEN map
    ELSE LET fid == Head(pairs)[1]
             snap == NormalizeSnap(Head(pairs)[2])
         IN PutAll([f \in (DOMAIN map) \cup {fid} |-> IF f = fid THEN snap ELSE map[f]],
                   Tail(pairs))

RECURSIVE SnapshotsOfRoots(_, _)
SnapshotsOfRoots(map, roots) ==
    IF roots = <<>> THEN map
    ELSE SnapshotsOfRoots(PutAll(map, Pairs(Head(roots).snapshots)), Tail(roots))

EmptyMap == [f \in {} |-> 0]

\* The index built from the snapshots of the first root only, the other
\* roots being left for later.
SnapshotMapOfFirstRoot(d) ==
    [raised |-> Len(ReadRoots(Roots(d))) < Len(Roots(d)),
     snapshots |-> SnapshotsOfRoots(EmptyMap,
                                    IF ReadRoots(Roots(d)) = <<>> THEN <<>>
                                    ELSE <<Head(Roots(d))>>)]

\* build_snapshot_map(data): the table it returns, or that it raised.
build_snapshot_map(d) ==
    [raised |-> Len(ReadRoots(Roots(d))) < Len(Roots(d)),
     snapshots |-> SnapshotsOfRoots(EmptyMap, ReadRoots(Roots(d)))]

(***************************************************************************)
(* analyze: the per-commit loop body                                       *)
(***************************************************************************)
\* 0.0
Zero == FZero(FALSE)

\* float(dur) for the JSON number of a duration map.
float(dur) == FromMicros(dur)

ComponentStats(name, fid, compiled) ==
    [name |-> name, fiber_id |-> fid, render_count |-> 0,
     total_self_time |-> Zero, max_self_time |-> Zero,
     total_actual_time |-> Zero, max_actual_time |-> Zero,
     compiled_with_forget |-> compiled]

\* f"Unknown#{fid}"
UnknownName(fid) == "Unknown#" \o ToString(fid)

\* Position of fid in the components dict, 0 when it is not a key.
FindComp(comps, fid) ==
    IF \E i \in 1..Len(comps) : comps[i].fiber_id = fid
    THEN CHOOSE i \in 1..Len(comps) : comps[i].fiber_id = fid
    ELSE 0

\* The entry with the test on the name `is not None` instead of truthiness: an
\* empty name is kept.
NewCompKeepsEmpty(snaps, fid) ==
    IF fid \in DOMAIN snaps
    THEN ComponentStats(IF snaps[fid].name # Null /\ snaps[fid].name # Absent
                        THEN snaps[fid].name
                        ELSE UnknownName(fid),
                        fid, snaps[fid].compiledWithForget)
    ELSE ComponentStats(UnknownName(fid), fid, FALSE)

\* The entry created on the first encounter of fid (lines 92 to 99).
NewComp(snaps, fid) ==
    IF fid \in DOMAIN snaps
    THEN ComponentStats(IF Truthy(snaps[fid].name) THEN snaps[fid].name
                        ELSE UnknownName(fid),
                        fid, snaps[fid].compiledWithForget)
    ELSE ComponentStats(UnknownName(fid), fid, FALSE)

\* The loop body with total_self_time updated outside the test dur > 0.
SelfStepAlwaysAdds(snaps, acc, fid, dur) ==
    LET Update(comps0, i, comp, ms) ==
            IF FGt(ms, Zero)
           THEN [comps |-> [comps0 EXCEPT
                               ![i].render_count = comp.render_count + 1,
                               ![i].total_self_time = FAdd(comp.total_self_time, ms),
                               ![i].max_self_time = FMax(comp.max_self_time, ms)],
                 commit_duration |-> FAdd(acc.commit_duration, ms),
                 commit_components |-> Append(acc.commit_components, <<comp.name, ms>>)]
           ELSE [comps |-> [comps0 EXCEPT
                               ![i].total_self_time = FAdd(comp.total_self_time, ms)],
                 commit_duration |-> FAdd(acc.commit_duration, ms),
                 commit_components |-> acc.commit_components]
        At(comps0, i, ms) == Update(comps0, i, comps0[i], ms)
        Entry(comps0) == At(comps0, FindComp(comps0, fid), float(dur))
    IN Entry(IF FindComp(acc.comps, fid) = 0
             THEN Append(acc.comps, NewComp(snaps, fid))
             ELSE acc.comps)

\* The loop body with render_count += 1 moved out of the test dur > 0: every
\* listed self-duration counts as a render.
SelfStepCountsEveryEntry(snaps, acc, fid, dur) ==
    LET Update(comps0, i, comp, ms) ==
            IF FGt(ms, Zero)
           THEN [comps |-> [comps0 EXCEPT
                               ![i].render_count = comp.render_count + 1,
                               ![i].total_self_time = FAdd(comp.total_self_time, ms),
                               ![i].max_self_time = FMax(comp.max_self_time, ms)],
                 commit_duration |-> FAdd(acc.commit_duration, ms),
                 commit_components |-> Append(acc.commit_components, <<comp.name, ms>>)]
           ELSE [comps |-> [comps0 EXCEPT ![i].render_count = comp.render_count + 1],
                 commit_duration |-> FAdd(acc.commit_duration, ms),
                 commit_components |-> acc.commit_components]
        At(comps0, i, ms) == Update(comps0, i, comps0[i], ms)
        Entry(comps0) == At(comps0, FindComp(comps0, fid), float(dur))
    IN Entry(IF FindComp(acc.comps, fid) = 0
             THEN Append(acc.comps, NewComp(snaps, fid))
             ELSE acc.comps)

\* The test dur >= 0 instead of dur > 0: a self-duration of 0 counts as a
\* render.
SelfStepNonNegative(snaps, acc, fid, dur) ==
    LET Update(comps0, i, comp, ms) ==
            IF FGe(ms, Zero)
           THEN [comps |-> [comps0 EXCEPT
                               ![i].render_count = comp.render_count + 1,
                               ![i].total_self_time = FAdd(comp.total_self_time, ms),
                               ![i].max_self_time = FMax(comp.max_self_time, ms)],
                 commit_duration |-> FAdd(acc.commit_duration, ms),
                 commit_components |-> Append(acc.commit_components, <<comp.name, ms>>)]
           ELSE [comps |-> comps0,
                 commit_duration |-> FAdd(acc.commit_duration, ms),
                 commit_components |-> acc.commit_components]
        At(comps0, i, ms) == Update(comps0, i, comps0[i], ms)
        Entry(comps0) == At(comps0, FindComp(comps0, fid), float(dur))
    IN Entry(IF FindComp(acc.comps, fid) = 0
             THEN Append(acc.comps, NewComp(snaps, fid))
             ELSE acc.comps)

\* The loop body with commit_duration += dur moved under the test dur > 0.
SelfStepSkipsNonPositive(snaps, acc, fid, dur) ==
    LET Update(comps0, i, comp, ms) ==
            IF FGt(ms, Zero)
           THEN [comps |-> [comps0 EXCEPT
                               ![i].render_count = comp.render_count + 1,
                               ![i].total_self_time = FAdd(comp.total_self_time, ms),
                               ![i].max_self_time = FMax(comp.max_self_time, ms)],
                 commit_duration |-> FAdd(acc.commit_duration, ms),
                 commit_components |-> Append(acc.commit_components, <<comp.name, ms>>)]
           ELSE [comps |-> comps0,
                 commit_duration |-> acc.commit_duration,
                 commit_components |-> acc.commit_components]
        At(comps0, i, ms) == Update(comps0, i, comps0[i], ms)
        Entry(comps0) == At(comps0, FindComp(comps0, fid), float(dur))
    IN Entry(IF FindComp(acc.comps, fid) = 0
             THEN Append(acc.comps, NewComp(snaps, fid))
             ELSE acc.comps)

\* One iteration of the self-duration loop on the accumulator
\* [comps, commit_duration, commit_components].
SelfStep(snaps, acc, fid, dur) ==
    LET Update(comps0, i, comp, ms) ==
            IF FGt(ms, Zero)
           THEN [comps |-> [comps0 EXCEPT
                               ![i].render_count = comp.render_count + 1,
                               ![i].total_self_time = FAdd(comp.total_self_time, ms),
                               ![i].max_self_time = FMax(comp.max_self_time, ms)],
                 commit_duration |-> FAdd(acc.commit_duration, ms),
                 commit_components |-> Append(acc.commit_components, <<comp.name, ms>>)]
           ELSE [comps |-> comps0,
                 commit_duration |-> FAdd(acc.commit_duration, ms),
                 commit_components |-> acc.commit_components]
        At(comps0, i, ms) == Update(comps0, i, comps0[i], ms)
        Entry(comps0) == At(comps0, FindComp(comps0, fid), float(dur))
    IN Entry(IF FindComp(acc.comps, fid) = 0
             THEN Append(acc.comps, NewComp(snaps, fid))
             ELSE acc.comps)

RECURSIVE SelfLoop(_, _, _)
SelfLoop(snaps, acc, pairs) ==
    IF pairs = <<>> THEN acc
    ELSE SelfLoop(snaps, SelfStep(snaps, acc, Head(pairs)[1], Head(pairs)[2]), Tail(pairs))

\* The loop body without the test fid in components: an actual duration of a
\* fiber not seen yet creates its entry.
ActualStepCreates(comps, fid, dur) ==
    LET Update(comps0, i, ms) ==
            [comps0 EXCEPT
                ![i].total_actual_time = FAdd(comps0[i].total_actual_time, ms),
                ![i].max_actual_time = FMax(comps0[i].max_actual_time, ms)]
        Entry(comps0) == Update(comps0, FindComp(comps0, fid), float(dur))
    IN Entry(IF FindComp(comps, fid) = 0
             THEN Append(comps, ComponentStats(UnknownName(fid), fid, FALSE))
             ELSE comps)

\* One iteration of the actual-duration loop.
ActualStep(comps, fid, dur) ==
    LET Update(i, ms) ==
            IF i # 0
            THEN [comps EXCEPT
                     ![i].total_actual_time = FAdd(comps[i].total_actual_time, ms),
                     ![i].max_actual_time = FMax(comps[i].max_actual_time, ms)]
            ELSE comps
    IN Update(FindComp(comps, fid), float(dur))

RECURSIVE ActualLoop(_, _)
ActualLoop(comps, pairs) ==
    IF pairs = <<>> THEN comps
    ELSE ActualLoop(ActualStep(comps, Head(pairs)[1], Head(pairs)[2]), Tail(pairs))

RECURSIVE InsertDescTiesFirst(_, _)
\* An unstable sort: x goes in front of the elements equal to it.
InsertDescTiesFirst(sorted, x) ==
    IF sorted = <<>> THEN <<x>>
    ELSE IF FGt(Head(sorted)[2], x[2])
         THEN <<Head(sorted)>> \o InsertDescTiesFirst(Tail(sorted), x)
         ELSE <<x>> \o sorted

\* Insert x into a list sorted by descending x[2], behind every element that
\* is not smaller: list.sort(key=..., reverse=True) is stable.
RECURSIVE InsertDesc(_, _)
InsertDesc(sorted, x) ==
    IF sorted = <<>> THEN <<x>>
    ELSE IF FGe(Head(sorted)[2], x[2])
         THEN <<Head(sorted)>> \o InsertDesc(Tail(sorted), x)
         ELSE <<x>> \o sorted

\* commit_components left in encounter order: the sort forgotten.
SortDescForgotten(done, todo) == done \o todo

RECURSIVE SortDesc(_, _)
SortDesc(done, todo) ==
    IF todo = <<>> THEN done
    ELSE SortDesc(InsertDesc(done, Head(todo)), Tail(todo))

TopN == 5

\* commit_components[:5]
TopComponents(sorted) == SubSeq(sorted, 1, Min(TopN, Len(sorted)))

\* commit.get("timestamp", 0)
Timestamp(commit) == IF commit.timestamp = <<>> THEN 0 ELSE commit.timestamp[1]

\* str(commit.get("priorityLevel", "unknown"))
Priority(commit) ==
    IF commit.priorityLevel = Absent THEN "unknown"
    ELSE IF commit.priorityLevel = Null THEN "None" ELSE commit.priorityLevel

\* The loop body with the commits numbered from 1: enumerate(..., 1).
ProcessCommitFromOne(snaps, comps, commit, ci) ==
    LET Out(raised, acc, actual) ==
            [raised |-> raised,
             comps |-> IF raised THEN comps ELSE ActualLoop(acc.comps, actual.pairs),
             info |-> [index |-> ci + 1,
                       timestamp |-> Timestamp(commit),
                       duration |-> acc.commit_duration,
                       priority_level |-> Priority(commit),
                       num_components |-> Len(acc.commit_components),
                       top_components |->
                           TopComponents(SortDesc(<<>>, acc.commit_components))]]
        Loops(self, actual) ==
            Out(self.raised \/ actual.raised,
                SelfLoop(snaps,
                         [comps |-> comps, commit_duration |-> Zero,
                          commit_components |-> <<>>],
                         self.pairs),
                actual)
    IN Loops(iter_pairs(commit.fiberSelfDurations),
             iter_pairs(commit.fiberActualDurations))

\* The body of the loop over commits (lines 80 to 133) for commit number ci
\* (from 0) of its root: the new components dict and the CommitInfo, or that
\* one of the two calls of iter_pairs raised (no CommitInfo is made then).
ProcessCommit(snaps, comps, commit, ci) ==
    LET Out(raised, acc, actual) ==
            [raised |-> raised,
             comps |-> IF raised THEN comps ELSE ActualLoop(acc.comps, actual.pairs),
             info |-> [index |-> ci,
                       timestamp |-> Timestamp(commit),
                       duration |-> acc.commit_duration,
                       priority_level |-> Priority(commit),
                       num_components |-> Len(acc.commit_components),
                       top_components |->
                           TopComponents(SortDesc(<<>>, acc.commit_components))]]
        Loops(self, actual) ==
            Out(self.raised \/ actual.raised,
                SelfLoop(snaps,
                         [comps |-> comps, commit_duration |-> Zero,
                          commit_components |-> <<>>],
                         self.pairs),
                actual)
    IN Loops(iter_pairs(commit.fiberSelfDurations),
             iter_pairs(commit.fiberActualDurations))
(***************************************************************************)
(* analyze: the statistics over all commits (lines 135 to 205)             *)
(* Where the code yields the int 0 for an empty session (percentile, avg,  *)
(* max, dropped_pct) the model has the float 0.0: the two compare, add and *)
(* round alike.                                                            *)
(***************************************************************************)
RECURSIVE InsertAsc(_, _)
InsertAsc(sorted, x) ==
    IF sorted = <<>> THEN <<x>>
    ELSE IF FLe(Head(sorted), x)
         THEN <<Head(sorted)>> \o InsertAsc(Tail(sorted), x)
         ELSE <<x>> \o sorted

\* all_durations left in commit order: the sort forgotten.
SortAscForgotten(done, todo) == done \o todo

\* all_durations.sort()
SortAsc(done, todo) ==
    LET RECURSIVE From(_)
        From(at) ==
            IF at.todo = <<>> THEN at.done
            ELSE From([done |-> InsertAsc(at.done, Head(at.todo)), todo |-> Tail(at.todo)])
    IN From([done |-> done, todo |-> todo])

\* round(total / n, 2)
Round2Div(total, n) == Round2(FDiv(total, FromInt(n)))

\* int(p / 100 * n): a quotient and a product of floats, then the whole part.
FloatIndex(p, n) == FTrunc(FMul(FDiv(FromInt(p), FromInt(100)), FromInt(n)))

\* The index taken as a rank counted from 1.
percentileRankFromOne(durs, p) ==
    IF Len(durs) = 0 THEN Zero
    ELSE durs[Max(1, Min(FloatIndex(p, Len(durs)), Len(durs)))]

\* percentile(p) over the sorted durations.
percentile(durs, p) ==
    IF Len(durs) = 0 THEN Zero
    ELSE durs[Min(FloatIndex(p, Len(durs)), Len(durs) - 1) + 1]

\* max(all_durations), for a list that is not empty
SeqMax(durs) ==
    LET RECURSIVE From(_)
        From(at) ==
            IF at.rest = <<>> THEN at.best
            ELSE From([best |-> FMax(at.best, Head(at.rest)), rest |-> Tail(at.rest)])
    IN From([best |-> Head(durs), rest |-> Tail(durs)])

\* sum(durs): the floats added one after the other, from 0, each addition
\* rounded (the builtin of CPython up to 3.11; from 3.12 on it carries a
\* correction term along).
SeqSum(durs) ==
    LET RECURSIVE From(_)
        From(at) ==
            IF at.rest = <<>> THEN at.acc
            ELSE From([acc |-> FAdd(at.acc, Head(at.rest)), rest |-> Tail(at.rest)])
    IN From([acc |-> Zero, rest |-> durs])

\* 16.67
FrameBudget == FromMicros(16670)

\* The frame budget compared with >= : a commit of exactly 16.67 ms dropped.
IsDroppedInclusive(d) == FGe(d, FromMicros(16670))

IsDropped(d) == FGt(d, FrameBudget)

\* sum(1 for d in all_durations if d > 16.67)
Dropped(durs) == Cardinality({i \in 1..Len(durs) : IsDropped(durs[i])})

BucketLabels ==
    <<"0ms", "1ms", "2ms", "3-5ms", "6-10ms", "11-16ms", "17-33ms", "34+ms">>

\* 0.5, 1.5, 2.5, 5.5, 10.5, 16.68 and 33.5
BucketLimits ==
    [i \in 1..7 |-> FromMicros(<<500, 1500, 2500, 5500, 10500, 16680, 33500>>[i])]

\* The chain with its last branch an elif: a commit of 33.5 ms or more is
\* counted nowhere.
BucketOfOpenEnd(d) ==
    LET Chain(limits) ==
            IF FLt(d, limits[1]) THEN {"0ms"}
            ELSE IF FLt(d, limits[2]) THEN {"1ms"}
            ELSE IF FLt(d, limits[3]) THEN {"2ms"}
            ELSE IF FLt(d, limits[4]) THEN {"3-5ms"}
            ELSE IF FLt(d, limits[5]) THEN {"6-10ms"}
            ELSE IF FLt(d, limits[6]) THEN {"11-16ms"}
            ELSE IF FLt(d, limits[7]) THEN {"17-33ms"}
            ELSE {}
    IN Chain(BucketLimits)

\* The if/elif chain of lines 150 to 165: the labels d is counted under.
BucketOf(d) ==
    LET Chain(limits) ==
            IF FLt(d, limits[1]) THEN {"0ms"}
            ELSE IF FLt(d, limits[2]) THEN {"1ms"}
            ELSE IF FLt(d, limits[3]) THEN {"2ms"}
            ELSE IF FLt(d, limits[4]) THEN {"3-5ms"}
            ELSE IF FLt(d, limits[5]) THEN {"6-10ms"}
            ELSE IF FLt(d, limits[6]) THEN {"11-16ms"}
            ELSE IF FLt(d, limits[7]) THEN {"17-33ms"}
            ELSE {"34+ms"}
    IN Chain(BucketLimits)

\* buckets after the loop over all_durations.
Buckets(durs) ==
    [b \in {BucketLabels[i] : i \in 1..Len(BucketLabels)} |->
        Cardinality({i \in 1..Len(durs) : b \in BucketOf(durs[i])})]

\* 10
ClusterThreshold == FromInt(10)
MinClusterSize == 3

IsExpensive(d) == FGt(d, ClusterThreshold)

\* The reset of the current run moved under the length test: a run shorter
\* than 3 is kept and grows across cheap commits.
ClusterStepNoReset(acc, cs, p) ==
    IF FGt(cs[p].duration, FromInt(10))
    THEN [clusters |-> acc.clusters, current |-> Append(acc.current, p)]
    ELSE IF Len(acc.current) >= 3
         THEN [clusters |-> Append(acc.clusters, acc.current), current |-> <<>>]
         ELSE acc

\* One iteration of the loop of lines 170 to 176 on [clusters, current],
\* for the commit at position p of commits.
ClusterStep(acc, cs, p) ==
    IF IsExpensive(cs[p].duration)
    THEN [clusters |-> acc.clusters, current |-> Append(acc.current, p)]
    ELSE [clusters |-> IF Len(acc.current) >= MinClusterSize
                       THEN Append(acc.clusters, acc.current)
                       ELSE acc.clusters,
          current |-> <<>>]

\* The loop of lines 170 to 176, from position p of commits on.
ClusterLoop(acc, cs, p) ==
    LET RECURSIVE From(_)
        From(at) ==
            IF at.p > Len(cs) THEN at.acc
            ELSE From([acc |-> ClusterStep(at.acc, cs, at.p), p |-> at.p + 1])
    IN From([acc |-> acc, p |-> p])

\* The flush of the last run forgotten.
ClustersNoFlush(cs) ==
    ClusterLoop([clusters |-> <<>>, current |-> <<>>], cs, 1).clusters

\* clusters after the flush of lines 177 and 178; a cluster is the list of
\* the positions (from 1) in commits of the CommitInfo objects it holds.
Clusters(cs) ==
    LET acc == ClusterLoop([clusters |-> <<>>, current |-> <<>>], cs, 1)
    IN IF Len(acc.current) >= MinClusterSize
       THEN Append(acc.clusters, acc.current)
       ELSE acc.clusters

\* One entry of overall["clusters"].
ClusterDict(cs, cl) ==
    LET Entry(total) ==
            [start_commit |-> cs[cl[1]].index,
             end_commit |-> cs[cl[Len(cl)]].index,
             size |-> Len(cl),
             total_ms |-> Round2(total),
             avg_ms |-> Round2Div(total, Len(cl))]
    IN Entry(SeqSum([i \in 1..Len(cl) |-> cs[cl[i]].duration]))

CompiledCount(comps) ==
    Cardinality({i \in 1..Len(comps) : comps[i].compiled_with_forget})

\* round(dropped / n * 100, 2)
DroppedPct(dropped, n) ==
    Round2(FMul(FDiv(FromInt(dropped), FromInt(n)), FromInt(100)))

\* The overall dict; durs is all_durations once sorted.
Overall(durs, total, comps, cs, cls) ==
    LET Stats(n, dropped) ==
       [total_commits |-> n,
        total_duration_ms |-> Round2(total),
        avg_duration_ms |-> IF n # 0 THEN Round2Div(total, n) ELSE Zero,
        median_duration_ms |-> Round2(percentile(durs, 50)),
        max_duration_ms |-> Round2(IF n # 0 THEN SeqMax(durs) ELSE Zero),
        p95_duration_ms |-> Round2(percentile(durs, 95)),
        p99_duration_ms |-> Round2(percentile(durs, 99)),
        dropped_frames |-> dropped,
        dropped_pct |-> IF n # 0 THEN DroppedPct(dropped, n) ELSE Zero,
        total_components |-> Len(comps),
        compiled_with_forget |-> CompiledCount(comps),
        duration_buckets |-> Buckets(durs),
        clusters |-> [i \in 1..Len(cls) |-> ClusterDict(cs, cls[i])]]
    IN Stats(Len(durs), Dropped(durs))
(***************************************************************************)
(* compare.py: compare_overall                                             *)
(***************************************************************************)
Metric(label, key, lower_better) ==
    [label |-> label, key |-> key, lower_better |-> lower_better]

\* The metrics list of lines 20 to 32.
Metrics ==
    <<Metric("Total commits", "total_commits", FALSE),
      Metric("Total render time", "total_duration_ms", FALSE),
      Metric("Avg commit", "avg_duration_ms", TRUE),
      Metric("Median commit", "median_duration_ms", TRUE),
      Metric("P95 commit", "p95_duration_ms", TRUE),
      Metric("P99 commit", "p99_duration_ms", TRUE),
      Metric("Max commit", "max_duration_ms", TRUE),
      Metric("Dropped frames", "dropped_frames", TRUE),
      Metric("Dropped %", "dropped_pct", TRUE),
      Metric("Components", "total_components", FALSE),
      Metric("React Compiler", "compiled_with_forget", FALSE)>>

\* The keys of overall that hold a Python int.
CountKeys == {"total_commits", "dropped_frames", "total_components", "compiled_with_forget"}

\* The number under key as the arithmetic of lines 46 and 47 takes it: an
\* int enters a true division as the float of the same value.
ValueOf(o, key) == IF key \in CountKeys THEN FromInt(o[key]) ELSE o[key]

\* change_pct = (aval - bval) / bval * 100, for bval # 0
ChangePct(bval, aval) == FMul(FDiv(FSub(aval, bval), bval), FromInt(100))

\* change_pct < -5
ChangeBelow(bval, aval) == FLt(ChangePct(bval, aval), FromInt(-5))

\* change_pct > 5
ChangeAbove(bval, aval) == FGt(ChangePct(bval, aval), FromInt(5))

\* The indicator with the limits included: <= -5 and >= 5.
IndicatorInclusive(lower_better, bval, aval) ==
    LET Of(change_pct) ==
            IF FLe(change_pct, FromInt(-5)) THEN "improved"
            ELSE IF FGe(change_pct, FromInt(5)) THEN "REGRESSED"
            ELSE "~same"
    IN IF ~FIsZero(bval)
       THEN IF lower_better THEN Of(ChangePct(bval, aval)) ELSE ""
       ELSE ""

\* The indicator of lines 46 to 62.
Indicator(lower_better, bval, aval) ==
    IF ~FIsZero(bval)
    THEN IF lower_better
         THEN IF ChangeBelow(bval, aval) THEN "improved"
              ELSE IF ChangeAbove(bval, aval) THEN "REGRESSED"
              ELSE "~same"
         ELSE ""
    ELSE ""

\* The em dash of a change that has no percentage: the one character
\* U+2014, which a string of the model cannot hold.
Dash == "U+2014"

\* change_str: f"{sign}{change_pct:.1f}%" with sign "+" for change_pct > 0,
\* or the dash when the before value is 0.
OverallChange(bval, aval) ==
    LET Str(change_pct) ==
            (IF FGt(change_pct, Zero) THEN "+" ELSE "") \o FFormat(change_pct, 1) \o "%"
    IN IF ~FIsZero(bval) THEN Str(ChangePct(bval, aval)) ELSE Dash

\* One row of compare_overall (lines 35 to 64); bval and aval are the two
\* numbers the row prints.
OverallRow(metric, before, after) ==
    LET Row(bval, aval) ==
            [label |-> metric.label,
             bval |-> before[metric.key], aval |-> after[metric.key],
             change |-> OverallChange(bval, aval),
             indicator |-> Indicator(metric.lower_better, bval, aval)]
    IN Row(ValueOf(before, metric.key), ValueOf(after, metric.key))

compare_overall(before, after) ==
    [i \in 1..Len(Metrics) |-> OverallRow(Metrics[i], before, after)]

(***************************************************************************)
(* compare.py: match_components and the component rows of main             *)
(***************************************************************************)
\* c.name.startswith("Unknown#")
IsUnknown(name) == Len(name) >= 8 /\ SubSeq(name, 1, 8) = "Unknown#"

FindName(by_name, name) ==
    IF \E i \in 1..Len(by_name) : by_name[i].name = name
    THEN CHOOSE i \in 1..Len(by_name) : by_name[i].name = name
    ELSE 0

\* The loop body storing the entry under its name: a later fiber of the same
\* name replaces the sums of the earlier ones.
AggregateStepLastWins(by_name, c) ==
    IF IsUnknown(c.name) THEN by_name
    ELSE LET by0 == IF FindName(by_name, c.name) = 0
                    THEN Append(by_name,
                                ComponentStats(c.name, c.fiber_id, c.compiled_with_forget))
                    ELSE by_name
             i == FindName(by0, c.name)
         IN [by0 EXCEPT
                ![i].render_count = c.render_count,
                ![i].total_self_time = c.total_self_time,
                ![i].max_self_time = c.max_self_time,
                ![i].total_actual_time = c.total_actual_time,
                ![i].max_actual_time = c.max_actual_time]

\* One iteration of the loop of aggregate_by_name (lines 79 to 90).
AggregateStep(by_name, c) ==
    IF IsUnknown(c.name) THEN by_name
    ELSE LET Add(by0, i, agg) ==
                 [by0 EXCEPT
                     ![i].render_count = agg.render_count + c.render_count,
                     ![i].total_self_time = FAdd(agg.total_self_time, c.total_self_time),
                     ![i].max_self_time = FMax(agg.max_self_time, c.max_self_time),
                     ![i].total_actual_time =
                         FAdd(agg.total_actual_time, c.total_actual_time),
                     ![i].max_actual_time = FMax(agg.max_actual_time, c.max_actual_time)]
             At(by0, i) == Add(by0, i, by0[i])
             Entry(by0) == At(by0, FindName(by0, c.name))
         IN Entry(IF FindName(by_name, c.name) = 0
                  THEN Append(by_name,
                              ComponentStats(c.name, c.fiber_id, c.compiled_with_forget))
                  ELSE by_name)

RECURSIVE AggregateLoop(_, _)
AggregateLoop(by_name, comps) ==
    IF comps = <<>> THEN by_name
    ELSE AggregateLoop(AggregateStep(by_name, Head(comps)), Tail(comps))

aggregate_by_name(comps) == AggregateLoop(<<>>, comps)

Names(by_name) == {by_name[i].name : i \in 1..Len(by_name)}

\* by_name.get(name): <<>> stands for None, <<stats>> for an entry.
GetName(by_name, name) ==
    IF FindName(by_name, name) = 0 THEN <<>> ELSE <<by_name[FindName(by_name, name)]>>

\* The result of match_components when the set all_names is iterated in the
\* order given by the sequence order.
match_components(before_comps, after_comps, order) ==
    LET before_names == aggregate_by_name(before_comps)
        after_names == aggregate_by_name(after_comps)
    IN [i \in 1..Len(order) |->
           [name |-> order[i],
            b |-> GetName(before_names, order[i]),
            a |-> GetName(after_names, order[i])]]

\* The names of both sessions only: & in place of |.
AllNamesOfBoth(before_comps, after_comps) ==
    Names(aggregate_by_name(before_comps)) \cap Names(aggregate_by_name(after_comps))

\* all_names = set(before_names.keys()) | set(after_names.keys())
AllNames(before_comps, after_comps) ==
    Names(aggregate_by_name(before_comps)) \cup Names(aggregate_by_name(after_comps))

\* The orders in which a set can be iterated.
Orders(S) ==
    {o \in [1..Cardinality(S) -> S] : \A i, j \in 1..Cardinality(S) : i # j => o[i] # o[j]}

\* b.render_count if b else 0
RendersOf(x) == IF x = <<>> THEN 0 ELSE x[1].render_count

\* b.total_self_time if b else 0
TimeOf(x) == IF x = <<>> THEN Zero ELSE x[1].total_self_time

sort_key(item) == FMax(TimeOf(item.b), TimeOf(item.a))

RECURSIVE InsertByKey(_, _)
InsertByKey(sorted, x) ==
    IF sorted = <<>> THEN <<x>>
    ELSE IF FGe(sort_key(Head(sorted)), sort_key(x))
         THEN <<Head(sorted)>> \o InsertByKey(Tail(sorted), x)
         ELSE <<x>> \o sorted

RECURSIVE SortMatched(_, _)
\* matched.sort(key=sort_key, reverse=True)
SortMatched(done, todo) ==
    IF todo = <<>> THEN done
    ELSE SortMatched(InsertByKey(done, Head(todo)), Tail(todo))

\* f"{(a - b) / b * 100:+.0f}%", for b # 0
PctChange(b, a) ==
    LET Str(change) == (IF change.neg THEN "" ELSE "+") \o FFormat(change, 0) \o "%"
    IN Str(ChangePct(b, a))

\* render_str and time_str (lines 193 to 207): the percentage, "NEW" or the
\* dash.
ChangeStr(b, a) ==
    IF FGt(b, Zero) THEN PctChange(b, a)
    ELSE IF FGt(a, Zero) THEN "NEW"
    ELSE Dash

\* 0.5 and 1.5
Half == FromMicros(500)
OneAndHalf == FromMicros(1500)

\* The chain with the factors 0.5 and 1.5 exchanged.
StatusFactorsSwapped(b_renders, a_renders, b_time, a_time) ==
    IF b_renders > 0 /\ a_renders = 0 THEN "ELIMINATED"
    ELSE IF FGt(b_time, Zero) /\ FLt(a_time, FMul(b_time, OneAndHalf)) THEN "improved"
    ELSE IF FGt(b_time, Zero) /\ FGt(a_time, FMul(b_time, Half)) THEN "REGRESSED"
    ELSE IF a_renders > 0 /\ b_renders = 0 THEN "new"
    ELSE ""

\* The chain with "improved" for any smaller self-time: the factor 0.5 left out.
StatusAnyDecrease(b_renders, a_renders, b_time, a_time) ==
    IF b_renders > 0 /\ a_renders = 0 THEN "ELIMINATED"
    ELSE IF FGt(b_time, Zero) /\ FLt(a_time, b_time) THEN "improved"
    ELSE IF FGt(b_time, Zero) /\ FGt(a_time, FMul(b_time, OneAndHalf)) THEN "REGRESSED"
    ELSE IF a_renders > 0 /\ b_renders = 0 THEN "new"
    ELSE ""

\* The if/elif chain of lines 209 to 218.
Status(b_renders, a_renders, b_time, a_time) ==
    IF b_renders > 0 /\ a_renders = 0 THEN "ELIMINATED"
    ELSE IF FGt(b_time, Zero) /\ FLt(a_time, FMul(b_time, Half)) THEN "improved"
    ELSE IF FGt(b_time, Zero) /\ FGt(a_time, FMul(b_time, OneAndHalf)) THEN "REGRESSED"
    ELSE IF a_renders > 0 /\ b_renders = 0 THEN "new"
    ELSE ""

\* The default of --top.
Top == 20

\* The body of the loop of lines 187 to 225 for one matched item; b_time and
\* a_time are the two numbers the row prints.
ComparisonRow(item) ==
    LET b_renders == RendersOf(item.b)
        a_renders == RendersOf(item.a)
        b_time == TimeOf(item.b)
        a_time == TimeOf(item.a)
    IN [name |-> SubSeq(item.name, 1, Min(35, Len(item.name))),
        b_renders |-> b_renders, a_renders |-> a_renders,
        render_str |-> ChangeStr(FromInt(b_renders), FromInt(a_renders)),
        b_time |-> b_time, a_time |-> a_time,
        time_str |-> ChangeStr(b_time, a_time),
        status |-> Status(b_renders, a_renders, b_time, a_time)]

\* rows, for the matched list as match_components returned it.
ComparisonRows(matched) ==
    LET Rows(shown) == [i \in 1..Len(shown) |-> ComparisonRow(shown[i])]
        Shown(sorted) == Rows(SubSeq(sorted, 1, Min(Top, Len(sorted))))
    IN Shown(SortMatched(<<>>, matched))
(***************************************************************************)
(* The tools as state machines                                             *)
(***************************************************************************)
\* root.get("commitData", [])
CommitData(root) == IF root.hasCommitData THEN root.commitData ELSE <<>>

RECURSIVE SeekStopAtMissing(_, _, _)
\* The loops given up at the first root without "commitData".
SeekStopAtMissing(d, ri, ci) ==
    IF ri > Len(Roots(d)) THEN <<ri, 0>>
    ELSE IF ~Roots(d)[ri].hasCommitData THEN <<Len(Roots(d)) + 1, 0>>
    ELSE IF ci < Len(Roots(d)[ri].commitData) THEN <<ri, ci>>
    ELSE SeekStopAtMissing(d, ri + 1, 0)

RECURSIVE Seek(_, _, _)
\* The two nested for loops of lines 78 and 79: the first commit at or after
\* commit ci (from 0) of root ri (from 1); root Len+1 when there is none.
Seek(d, ri, ci) ==
    IF ri > Len(Roots(d)) THEN <<ri, 0>>
    ELSE IF ci < Len(CommitData(Roots(d)[ri])) THEN <<ri, ci>>
    ELSE Seek(d, ri + 1, 0)

NoOverall == [computed |-> FALSE]
NoResult == [computed |-> FALSE]
NoCall == [called |-> FALSE]

\* The arguments analyze calls its closure percentile with (lines 186, 188
\* and 189); nothing else can call it.
PercentileArgs == {50, 95, 99}
EmptyTrace == [hasRoots |-> FALSE, roots |-> <<>>]

\* The document the running analyze() was called with.
CurrentData == IF session = "after" THEN after_data ELSE data

\* analyze, line 71: build_snapshot_map(data), which also rewrites the
\* snapshots of the document in place; an exception of iter_pairs ends the
\* tool.
BuildSnapshotMap ==
    /\ pc = "start"
    /\ IF session = "after"
       THEN after_data' = NormalizeData(after_data) /\ UNCHANGED data
       ELSE data' = NormalizeData(data) /\ UNCHANGED after_data
    /\ IF build_snapshot_map(CurrentData).raised
       THEN pc' = "raised" /\ UNCHANGED <<snapshots, pos>>
       ELSE /\ snapshots' = build_snapshot_map(CurrentData).snapshots
            /\ pos' = Seek(CurrentData, 1, 0)
            /\ pc' = "aggregate"
    /\ UNCHANGED <<session, components, commits, total_duration, all_durations,
                   overall, clusters, before_result, overall_rows, rows,
                   percentile_call>>

\* analyze, lines 79 to 133: one pass of the loop body, for the next commit;
\* an exception of iter_pairs ends the tool.
AggregateCommit ==
    /\ pc = "aggregate"
    /\ pos[1] <= Len(Roots(CurrentData))
    /\ LET Body(r) ==
               /\ components' = r.comps
               /\ IF r.raised
                  THEN /\ pc' = "raised"
                       /\ UNCHANGED <<commits, total_duration, all_durations, pos>>
                  ELSE /\ commits' = Append(commits, r.info)
                       /\ total_duration' = FAdd(total_duration, r.info.duration)
                       /\ all_durations' = Append(all_durations, r.info.duration)
                       /\ pos' = Seek(CurrentData, pos[1], pos[2] + 1)
                       /\ UNCHANGED pc
       IN Body(ProcessCommit(snapshots, components,
                             CommitData(Roots(CurrentData)[pos[1]])[pos[2] + 1],
                             pos[2]))
    /\ UNCHANGED <<session, data, after_data, snapshots, overall, clusters,
                   before_result, overall_rows, rows, percentile_call>>

\* analyze, lines 135 to 207: the statistics, once the loops are over; what
\* the three calls of the closure percentile return is kept as it is, before
\* round(x, 2).
ComputeOverall ==
    /\ pc = "aggregate"
    /\ pos[1] > Len(Roots(CurrentData))
    /\ all_durations' = SortAsc(<<>>, all_durations)
    /\ clusters' = Clusters(commits)
    /\ overall' = Overall(all_durations', total_duration, components, commits, clusters')
    /\ pc' = "analyzed"
    /\ percentile_call' =
           [called |-> TRUE,
            value |-> [p \in PercentileArgs |-> percentile(all_durations', p)]]
    /\ UNCHANGED <<session, data, after_data, snapshots, components, commits,
                   total_duration, pos, before_result, overall_rows, rows>>

\* compare.py main, lines 125 to 129: the first analyze() has returned (its
\* third result, the commits, is bound to _) and the second one starts on
\* after_data with fresh locals.
StartAfter ==
    /\ pc = "analyzed"
    /\ session = "before"
    /\ before_result' = [overall |-> overall, comps |-> components, commits |-> commits]
    /\ session' = "after"
    /\ snapshots' = EmptyMap
    /\ components' = <<>>
    /\ commits' = <<>>
    /\ total_duration' = Zero
    /\ all_durations' = <<>>
    /\ pos' = <<1, 0>>
    /\ overall' = NoOverall
    /\ clusters' = <<>>
    /\ percentile_call' = NoCall
    /\ pc' = "start"
    /\ UNCHANGED <<data, after_data, overall_rows, rows>>

\* The collections of the first call kept by the second one.
AnalyzeAgainKeepsComponents ==
    /\ pc = "analyzed"
    /\ session = "before"
    /\ before_result' = [overall |-> overall, comps |-> components, commits |-> commits]
    /\ session' = "again"
    /\ snapshots' = EmptyMap
    /\ commits' = <<>>
    /\ total_duration' = Zero
    /\ all_durations' = <<>>
    /\ pos' = <<1, 0>>
    /\ overall' = NoOverall
    /\ clusters' = <<>>
    /\ percentile_call' = NoCall
    /\ pc' = "start"
    /\ UNCHANGED <<data, after_data, components, overall_rows, rows>>

\* analyze, lines 69 to 76, entered a second time with the document the first
\* call was given (and has rewritten): the module keeps nothing between two
\* calls and the locals are created afresh.
AnalyzeAgain ==
    /\ pc = "analyzed"
    /\ session = "before"
    /\ before_result' = [overall |-> overall, comps |-> components, commits |-> commits]
    /\ session' = "again"
    /\ snapshots' = EmptyMap
    /\ components' = <<>>
    /\ commits' = <<>>
    /\ total_duration' = Zero
    /\ all_durations' = <<>>
    /\ pos' = <<1, 0>>
    /\ overall' = NoOverall
    /\ clusters' = <<>>
    /\ percentile_call' = NoCall
    /\ pc' = "start"
    /\ UNCHANGED <<data, after_data, overall_rows, rows>>

\* compare.py main, lines 147 to 149: the second analyze() has returned and
\* the overall statistics are compared.
CompareOverall ==
    /\ pc = "analyzed"
    /\ session = "after"
    /\ overall_rows' = compare_overall(before_result.overall, overall)
    /\ pc' = "overall_compared"
    /\ UNCHANGED <<session, data, after_data, snapshots, components, commits,
                   total_duration, all_durations, pos, overall, clusters,
                   before_result, rows, percentile_call>>

\* compare.py main, lines 175 to 225: match the components and build the rows.
\* The order of a Python set of strings is not fixed.
CompareComponents ==
    /\ pc = "overall_compared"
    /\ \E order \in Orders(AllNames(before_result.comps, components)) :
          rows' = ComparisonRows(match_components(before_result.comps, components, order))
    /\ pc' = "compared"
    /\ UNCHANGED <<session, data, after_data, snapshots, components, commits,
                   total_duration, all_durations, pos, overall, clusters,
                   before_result, overall_rows, percentile_call>>

(***************************************************************************)
(* Trace documents                                                         *)
(***************************************************************************)
RECURSIVE Numeral(_)
\* The decimal text of a whole number n >= 0, as JSON writers give a key.
Numeral(n) == IF n < 10 THEN <<48 + n>> ELSE Append(Numeral(n \div 10), 48 + (n % 10))

Snap(dn, nm, cwf) == [displayName |-> dn, name |-> nm, compiledWithForget |-> cwf]

Commit(self, actual, ts, prio) ==
    [fiberSelfDurations |-> self, fiberActualDurations |-> actual,
     timestamp |-> ts, priorityLevel |-> prio]

Root(snaps, cs) == [snapshots |-> snaps, hasCommitData |-> TRUE, commitData |-> cs]
RootNoCommitData(snaps) == [snapshots |-> snaps, hasCommitData |-> FALSE, commitData |-> <<>>]
Trace(roots) == [hasRoots |-> TRUE, roots |-> roots]

\* A commit whose only self-duration is d, for fiber 1.
PlainCommit(d) == Commit(ListMap(<<Pair(1, d)>>), AbsentMap, <<>>, Absent)

\* Two roots without snapshots: the first holds the first k commits of the
\* duration series ds, the second the others.
Timeline(ds, k) ==
    Trace(<<Root(AbsentMap, [i \in 1..k |-> PlainCommit(ds[i])]),
            Root(AbsentMap, [i \in 1..(Len(ds) - k) |-> PlainCommit(ds[k + i])])>>)

MaxTimeline == 5
MaxSeries == 3
MaxWide == 6
MaxPairs == 3

\* Commit durations around the cluster threshold of 10 ms.
TimelineDurs == {10000, 12000}

\* A timeline of up to MaxTimeline commits, cut into two roots anywhere.
TimelineTrace(d) ==
    \E n \in 0..MaxTimeline : \E ds \in [1..n -> TimelineDurs] : \E k \in 0..n :
        d = Timeline(ds, k)

MaxLong == 7

\* A longer timeline in one root, every commit 10 ms or 12 ms: room for two
\* runs of three commits above 10 ms.
LongTrace(d) ==
    \E n \in 0..MaxLong : \E ds \in [1..n -> {10000, 12000}] : d = Timeline(ds, n)

\* Commit durations of the first and of the last three buckets, on both
\* sides of the frame budget.
SeriesDurs == {400, 16670, 16674, 40000}

\* A series of up to MaxSeries commits, in one root or cut into two roots
\* behind its first commit.
SeriesTrace(d) ==
    \E n \in 0..MaxSeries : \E ds \in [1..n -> SeriesDurs] : \E k \in {Min(1, n), n} :
        d = Timeline(ds, k)

WideDurs == {5000, 12000}

\* One commit with self-durations for the fibers 1..n, none of them named.
WideTrace(d) ==
    \E n \in 0..MaxWide : \E ds \in [1..n -> WideDurs] :
        d = Trace(<<Root(AbsentMap,
                         <<Commit(ListMap([i \in 1..n |-> Pair(i, ds[i])]), AbsentMap,
                                  <<>>, Absent)>>)>>)

\* Fiber 1 is named by displayName, fiber 2 by name; no other fiber is named.
FiberSnapshots ==
    ListMap(<<Pair(1, Snap("Button", Absent, TRUE)), Pair(2, Snap(Absent, "List", FALSE))>>)

FiberPairs ==
    <<Pair(1, -1000), Pair(1, 0), Pair(1, 5000), Pair(1, 12000), Pair(2, -1000)>>

\* One root with two commits, of the self-durations ps1 and ps2.
TwoCommits(ps1, ps2) ==
    Trace(<<Root(FiberSnapshots,
                 <<Commit(ListMap(ps1), AbsentMap, <<100>>, "Normal"),
                   Commit(ListMap(ps2), AbsentMap, <<>>, Absent)>>)>>)

\* Up to MaxPairs self-durations: the second commit holds the last one, or none.
FiberTrace(d) ==
    \E n \in 0..MaxPairs : \E c \in [1..n -> 1..Len(FiberPairs)] :
        \E k \in {n, Max(0, n - 1)} :
            d = TwoCommits([i \in 1..k |-> FiberPairs[c[i]]],
                           [i \in 1..(n - k) |-> FiberPairs[c[k + i]]])

MaxActual == 3

SelfChoices == <<<<Pair(1, 5000)>>, <<Pair(2, 5000)>>>>

ActualPairs == <<Pair(1, -2000), Pair(2, 9000), Pair(3, 4000)>>

\* One root with two commits, each with one self-duration and
\* together up to MaxActual actual durations: the second commit holds the
\* last one, or none.
ActualTrace(d) ==
    \E s1, s2 \in 1..Len(SelfChoices) :
        \E n \in 0..MaxActual : \E c \in [1..n -> 1..Len(ActualPairs)] :
            \E k \in {n, Max(0, n - 1)} :
            d = Trace(<<Root(FiberSnapshots,
                   <<Commit(ListMap(SelfChoices[s1]),
                            ListMap([i \in 1..k |-> ActualPairs[c[i]]]), <<>>, Absent),
                     Commit(ListMap(SelfChoices[s2]),
                            ListMap([i \in 1..(n - k) |-> ActualPairs[c[k + i]]]),
                            <<>>, Absent)>>)>>)

MaxSnapRoots == 2

\* The snapshots of fiber 1: the name fields present, null, empty or missing.
SnapVariants ==
    <<Snap("A", "B", TRUE), Snap("A", "", FALSE), Snap(Absent, "B", FALSE),
      Snap("", "B", TRUE), Snap(Null, "B", FALSE), Snap(Absent, Absent, FALSE),
      Snap("", "", FALSE)>>

\* The snapshot tables of one root: fiber 1 alone, fibers 1 and 2 (for two
\* of the variants), fiber 2 alone under another name, none, fiber 2 under
\* the string "2", and a table with a key that is no number.
SnapTables ==
    [v \in 1..Len(SnapVariants) |-> ListMap(<<Pair(1, SnapVariants[v])>>)]
    \o [v \in 1..2 |->
           ListMap(<<Pair(1, SnapVariants[3 * v - 2]),
                     Pair(2, Snap("List", Absent, FALSE))>>)]
    \o <<ListMap(<<Pair(2, Snap(Absent, "Item", TRUE))>>), AbsentMap,
          ListMap(<<Pair(Numeral(2), Snap("Row", "Item", TRUE))>>),
          ListMap(<<Pair(1, Snap("A", "B", TRUE)), Pair(<<120>>, Snap("C", "D", FALSE))>>)>>

\* The commit of the last root: self-durations for the fibers 1, 2 and 3.
SnapCommit ==
    Commit(ListMap(<<Pair(1, 5000), Pair(2, 3000), Pair(3, 1000)>>), AbsentMap,
           <<>>, Absent)

\* Up to MaxSnapRoots roots, each with its own snapshot table; the commit is
\* in the last root.
SnapTrace(d) ==
    \E n \in 1..MaxSnapRoots : \E t \in [1..n -> 1..Len(SnapTables)] :
        d = Trace([r \in 1..n |->
                      Root(SnapTables[t[r]], IF r = n THEN <<SnapCommit>> ELSE <<>>)])

\* The same roots with the commit in the last root, in the first root, or in
\* every root.
SnapTraceAt(d) ==
    \E n \in 1..MaxSnapRoots : \E t \in [1..n -> 1..Len(SnapTables)] :
        \E w \in {{n}, {1}, 1..n} :
            d = Trace([r \in 1..n |->
                          Root(SnapTables[t[r]], IF r \in w THEN <<SnapCommit>> ELSE <<>>)])

MaxElems == 2

\* The elements of a list-form map: a pair, a list of three items, a list of
\* one item, a value of two items that is not a list (an object or a
\* string), and three pairs whose first item is not a number: a string that
\* spells one, a string that spells none, null.
ListElems ==
    <<Pair(1, 5000),
      [isList |-> TRUE, elems |-> <<3, 2000, 7>>],
      [isList |-> TRUE, elems |-> <<1>>],
      [isList |-> FALSE, elems |-> <<1, 5000>>],
      Pair(Numeral(12), 5000), Pair(<<120>>, 5000), Pair(Null, 5000)>>

\* One commit whose fiberSelfDurations is a list of up to MaxElems elements.
MalformedTrace(d) ==
    \E n \in 0..MaxElems : \E c \in [1..n -> 1..Len(ListElems)] :
        d = Trace(<<Root(FiberSnapshots,
                         <<Commit(ListMap([i \in 1..n |-> ListElems[c[i]]]), AbsentMap,
                                  <<>>, Absent)>>)>>)

\* Roots with optional fields missing.
SparseRoots ==
    <<RootNoCommitData(AbsentMap), RootNoCommitData(FiberSnapshots),
      Root(AbsentMap, <<>>), Root(FiberSnapshots, <<>>),
      Root(AbsentMap, <<Commit(AbsentMap, AbsentMap, <<>>, Absent)>>),
      Root(AbsentMap, <<PlainCommit(17000)>>)>>

\* No dataForRoots, or at most two sparse roots.
SparseTrace(d) ==
    \/ d = EmptyTrace
    \/ \E n \in 0..2 : \E c \in [1..n -> 1..Len(SparseRoots)] :
          d = Trace([i \in 1..n |-> SparseRoots[c[i]]])

MaxDictKeys == 1

\* Keys of a JSON object: decimal numbers as JSON writers give them, numbers
\* in other spellings int() accepts ("-3", "+4", " 5 ", "1_0", "007", "\v5",
\* "5" with U+00A0 behind it, the Arabic-Indic digit three U+0663, the
\* fullwidth digits U+FF11 U+FF12), and six that it rejects ("x", "", "1__0",
\* "_1", "1.0", "5" with U+001C in front of it).
DictKeys ==
    <<<<49>>, <<50>>, <<45, 51>>, <<43, 52>>,
      <<32, 53, 32>>, <<49, 95, 48>>, <<48, 48, 55>>, <<11, 53>>,
      <<53, 160>>, <<1635>>, <<65297, 65298>>, <<120>>,
      <<>>, <<49, 95, 95, 48>>, <<95, 49>>, <<49, 46, 48>>,
      <<28, 53>>>>

\* One commit whose fiberSelfDurations and fiberActualDurations are objects
\* of up to MaxDictKeys keys together.
DictTrace(d) ==
    \E n \in 0..MaxDictKeys : \E c \in [1..n -> 1..Len(DictKeys)] : \E k \in 0..n :
        d = Trace(<<Root(FiberSnapshots,
                         <<Commit(DictMap([i \in 1..k |-> KV(DictKeys[c[i]], 5000)]),
                                  DictMap([i \in 1..(n - k) |-> KV(DictKeys[c[k + i]], 7000)]),
                                  <<>>, Absent)>>)>>)

MaxSums == 3

\* Self-durations of one commit whose decimal sum is a limit of the
\* statistics (0.5, 1.5, 10, 16.68) and whose float sum is not, and commits
\* of one duration that round(x, 2) has to round.
SumChoices ==
    <<<<30, 290, 180>>, <<120, 950, 430>>, <<50, 7980, 1970>>, <<20, 16080, 580>>,
      <<2675>>, <<5>>, <<15>>, <<10>>, <<30>>, <<0>>>>

\* The commit with the self-durations ds, for the fibers 1, 2, ...
SumCommit(ds) ==
    Commit(ListMap([i \in 1..Len(ds) |-> Pair(i, ds[i])]), AbsentMap, <<>>, Absent)

\* One root with up to MaxSums commits of one of the SumChoices, and one
\* commit of 0 ms behind them or not.
SumTrace(d) ==
    \E n \in 0..MaxSums : \E c \in 1..Len(SumChoices) : \E z \in 0..1 :
        d = Trace(<<Root(AbsentMap,
                         [i \in 1..(n + z) |->
                             SumCommit(IF i <= n THEN SumChoices[c] ELSE <<0>>)])>>)

\* n commits, the first k of 17 ms and the others of 1 ms.
DroppedOf(k, n) == Timeline([i \in 1..n |-> IF i <= k THEN 17000 ELSE 1000], n)

\* The scenario of the specification: fibers 1 'Button' and 2 'List', one
\* commit at timestamp 100 with self-durations {"1": 5.0, "2": 12.0}.
ScenarioTrace ==
    Trace(<<Root(DictMap(<<KV(Numeral(1), Snap("Button", Absent, FALSE)),
                           KV(Numeral(2), Snap("List", Absent, FALSE))>>),
                 <<Commit(DictMap(<<KV(Numeral(1), 5000), KV(Numeral(2), 12000)>>), AbsentMap,
                          <<100>>, Absent)>>)>>)

(***************************************************************************)
(* analyze.py: one analyze() of one trace                                  *)
(***************************************************************************)
InitLocals ==
    /\ pc = "start"
    /\ session = "before"
    /\ snapshots = EmptyMap
    /\ components = <<>>
    /\ commits = <<>>
    /\ total_duration = Zero
    /\ all_durations = <<>>
    /\ pos = <<1, 0>>
    /\ overall = NoOverall
    /\ clusters = <<>>
    /\ before_result = NoResult
    /\ overall_rows = <<>>
    /\ rows = <<>>
    /\ percentile_call = NoCall

Init ==
    /\ \/ TimelineTrace(data)
       \/ LongTrace(data)
       \/ SeriesTrace(data)
       \/ WideTrace(data)
       \/ FiberTrace(data)
       \/ ActualTrace(data)
       \/ SnapTrace(data)
       \/ MalformedTrace(data)
       \/ DictTrace(data)
       \/ SumTrace(data)
       \/ SparseTrace(data)
       \/ data = ScenarioTrace
    /\ after_data = EmptyTrace
    /\ InitLocals

Next == BuildSnapshotMap \/ AggregateCommit \/ ComputeOverall

Spec == Init /\ [][Next]_vars
(***************************************************************************)
(* analyze.py: one analyze() of a trace with snapshot tables               *)
(***************************************************************************)
\* A snapshot table in object form, the names present or missing.
DictSnapTrace ==
    Trace(<<Root(DictMap(<<KV(Numeral(1), Snap("Button", "Btn", TRUE)),
                           KV(Numeral(2), Snap(Absent, "List", FALSE)),
                           KV(Numeral(3), Snap(Absent, Absent, FALSE))>>),
                 <<SnapCommit>>)>>)

InitSnapshots ==
    /\ \/ SnapTraceAt(data)
       \/ SparseTrace(data)
       \/ data = DictSnapTrace
       \/ data = ScenarioTrace
    /\ after_data = EmptyTrace
    /\ InitLocals

SpecSnapshots == InitSnapshots /\ [][Next]_vars

(***************************************************************************)
\* Fibers 1 and 3 are both named 'X', fiber 2 is 'Y', fiber 4 has no snapshot.
SessionSnapshots ==
    DictMap(<<KV(Numeral(1), Snap("X", Absent, FALSE)), KV(Numeral(2), Snap("Y", "Z", FALSE)),
              KV(Numeral(3), Snap(Absent, "X", FALSE))>>)

\* The self-durations of the first session and of the second one.
BeforePairs == <<Pair(1, 0), Pair(1, 12000), Pair(2, 0), Pair(3, 6000)>>
AfterPairs == <<Pair(1, 12000), Pair(2, 6000), Pair(4, 6000)>>

\* The actual durations of every session commit.
SessionActual == ListMap(<<Pair(1, 7000), Pair(3, 9000), Pair(4, 8000)>>)

MaxBefore == 2
MaxAfter == 1

\* One root, one commit with up to max of the self-durations pairs and the
\* actual durations of SessionActual.
SessionTrace(d, max, pairs) ==
    \E n \in 0..max : \E c \in [1..n -> 1..Len(pairs)] :
        d = Trace(<<Root(SessionSnapshots,
                         <<Commit(ListMap([i \in 1..n |-> pairs[c[i]]]),
                                  SessionActual, <<>>, Absent)>>)>>)

MaxKeys == 2

\* The fiber identities of the traces in object form; the key of a fiber in
\* an object is its identity as a JSON writer spells it, Numeral(fid).
EncodedFids == <<1, 2, 3, 12, 100>>
EncodedDurs == {5000, 12000}

\* A trace with every map in object form: snapshots for the fibers 1 and 2,
\* and one commit with self-durations for up to MaxKeys distinct fibers in any
\* order and actual durations for the fibers 2 and 1.
EncodedTrace(d) ==
    \E n \in 0..MaxKeys : \E c \in [1..n -> 1..Len(EncodedFids)] :
        \E v \in [1..n -> EncodedDurs] :
            /\ \A i, j \in 1..n : i # j => c[i] # c[j]
            /\ d = Trace(<<Root(DictMap(<<KV(Numeral(1), Snap("Button", Absent, TRUE)),
                                          KV(Numeral(2), Snap(Absent, "List", FALSE))>>),
                       <<Commit(DictMap([i \in 1..n |-> KV(Numeral(EncodedFids[c[i]]), v[i])]),
                                DictMap(<<KV(Numeral(2), 9000), KV(Numeral(1), 7000)>>),
                                <<100>>, "Normal")>>)>>)

\* The fiber identity an object is keyed by under key: the one a JSON
\* writer spells so.
FidOf(key) == CHOOSE i \in 1..Len(EncodedFids) : Numeral(EncodedFids[i]) = key

\* A map in object form written as the list of its [fiber identity, value]
\* pairs, the identities as numbers, in the same order.
ToList(m) ==
    IF m.kind = "dict"
    THEN ListMap([i \in 1..Len(m.items) |->
                     Pair(EncodedFids[FidOf(m.items[i].key)], m.items[i].val)])
    ELSE m

\* The trace with every map in list form.
ListEncoding(d) ==
    [d EXCEPT !.roots =
        [r \in 1..Len(d.roots) |->
            [d.roots[r] EXCEPT
                !.snapshots = ToList(d.roots[r].snapshots),
                !.commitData =
                    [c \in 1..Len(d.roots[r].commitData) |->
                        [d.roots[r].commitData[c] EXCEPT
                            !.fiberSelfDurations = ToList(@),
                            !.fiberActualDurations = ToList(@)]]]]]

MaxOverall == 2

\* Commit durations 5% and about 10% apart, a commit of 0 ms and a negative one.
OverallDurs == {-20000, 0, 19000, 20000, 21000}

\* Self-times whose change is at a limit of the comparison in decimals and
\* beside it in floats, or is printed with a rounded digit.
EdgeDurs ==
    {380, 400, 414, 700, 1000, 1015, 1050, 18990, 20000, 20010, 20050, 21010,
     -2100, -2000, -1900}

\* One commit with the self-duration dur of fiber 1 ('Button').
EdgeTrace(d) ==
    \E dur \in EdgeDurs :
        d = Trace(<<Root(FiberSnapshots,
                         <<Commit(ListMap(<<Pair(1, dur)>>), AbsentMap, <<>>, Absent)>>)>>)

\* A session of up to max commits with durations of durs.
OverallTrace(d, max, durs) ==
    \E n \in 0..max : \E ds \in [1..n -> durs] : d = Timeline(ds, n)

\* The second trace is any small trace or a copy of the first, or the first
\* trace in the other encoding.
InitCompare ==
    /\ \/ /\ SessionTrace(data, MaxBefore, BeforePairs)
          /\ \/ SessionTrace(after_data, MaxAfter, AfterPairs)
             \/ after_data = data
       \/ /\ EncodedTrace(data)
          /\ after_data = ListEncoding(data)
       \/ /\ OverallTrace(data, MaxOverall, OverallDurs)
          /\ OverallTrace(after_data, 2, {0, 21000})
       \/ /\ EdgeTrace(data)
          /\ EdgeTrace(after_data)
       \/ /\ data = DroppedOf(3, 5)
          /\ after_data = DroppedOf(1, 3)
    /\ InitLocals

NextCompare ==
    \/ BuildSnapshotMap
    \/ AggregateCommit
    \/ ComputeOverall
    \/ StartAfter
    \/ CompareOverall
    \/ CompareComponents

SpecCompare == InitCompare /\ [][NextCompare]_vars
(***************************************************************************)
(* analyze.py: analyze() twice on the same in-memory document              *)
(***************************************************************************)
InitTwice ==
    /\ \/ SnapTrace(data)
       \/ FiberTrace(data)
       \/ MalformedTrace(data)
       \/ SparseTrace(data)
       \/ data = ScenarioTrace
    /\ after_data = EmptyTrace
    /\ InitLocals

NextTwice ==
    \/ BuildSnapshotMap
    \/ AggregateCommit
    \/ ComputeOverall
    \/ AnalyzeAgain

SpecTwice == InitTwice /\ [][NextTwice]_vars
(***************************************************************************)
(* analyze.py: the percentiles of up to MaxSorted commits                  *)
(***************************************************************************)
MaxSorted == 50

\* One root with up to MaxSorted commits of 1 ms, 2 ms, ... in falling order.
SortedTrace(d) ==
    \E n \in 0..MaxSorted : d = Timeline([i \in 1..n |-> (n + 1 - i) * 1000], n)

InitPercentile ==
    /\ SortedTrace(data)
    /\ after_data = EmptyTrace
    /\ InitLocals

SpecPercentile == InitPercentile /\ [][Next]_vars
(***************************************************************************)
(* Properties                                                              *)
(* A number of milliseconds in a property is the float of its decimal,     *)
(* Ms(16670) for 16.67, and a sum, a product or a comparison of durations  *)
(* is the one of floats, taken in the order the property names.            *)
(***************************************************************************)
RECURSIVE Concat(_)
Concat(ss) == IF ss = <<>> THEN <<>> ELSE Head(ss) \o Concat(Tail(ss))

\* The float of n thousandths of a millisecond.
Ms(n) == FromMicros(n)

RECURSIVE IntSum(_)
\* The sum of a sequence of whole numbers.
IntSum(ns) == IF ns = <<>> THEN 0 ELSE Head(ns) + IntSum(Tail(ns))

\* The raw commits of a trace, root after root.
FlatCommits(d) == Concat([r \in 1..Len(Roots(d)) |-> CommitData(Roots(d)[r])])

\* The values of a sequence of pairs as floats, in order.
DursOf(ps) == [i \in 1..Len(ps) |-> float(ps[i][2])]

\* The values of a sequence of pairs that are strictly greater than 0.
PositiveOf(ps) == SelectSeq(DursOf(ps), LAMBDA v : FGt(v, Zero))

\* The positive self-durations listed in a raw commit, in order.
PositiveDurs(commit) == PositiveOf(Pairs(commit.fiberSelfDurations))

Count(seq, v) == Cardinality({i \in 1..Len(seq) : seq[i] = v})
Range(seq) == {seq[i] : i \in 1..Len(seq)}

Analyzed == pc = "analyzed"

\* C1: for a trace with at least one commit the returned statistics satisfy
\* median <= p95 <= p99 <= max commit duration.
C1_PercentilesOrdered ==
    (Analyzed /\ Len(commits) >= 1) =>
        /\ FLe(overall.median_duration_ms, overall.p95_duration_ms)
        /\ FLe(overall.p95_duration_ms, overall.p99_duration_ms)
        /\ FLe(overall.p99_duration_ms, overall.max_duration_ms)

\* Three commits given out of order, with a median below the p95.
C1_Witness ==
    /\ Analyzed
    /\ Len(commits) = 3
    /\ FGt(commits[1].duration, commits[2].duration)
    /\ FLt(overall.median_duration_ms, overall.p95_duration_ms)

\* C2: every commit is counted in exactly one of the eight buckets, so the
\* bucket counts of duration_buckets sum to total_commits.
C2_BucketsSumToTotal ==
    Analyzed =>
        /\ DOMAIN overall.duration_buckets = Range(BucketLabels)
        /\ Len(BucketLabels) = 8
        /\ IntSum([i \in 1..Len(BucketLabels) |-> overall.duration_buckets[BucketLabels[i]]])
               = overall.total_commits
        /\ overall.total_commits = Len(commits)
        /\ \A b \in Range(BucketLabels) : overall.duration_buckets[b] >= 0

\* Three commits in three buckets, the last bucket among them.
C2_Witness ==
    /\ Analyzed
    /\ overall.total_commits = 3
    /\ overall.duration_buckets["34+ms"] = 1
    /\ overall.duration_buckets["11-16ms"] = 1
    /\ overall.duration_buckets["0ms"] = 1

\* C3: dropped_frames is the number of commits, over all roots, whose duration
\* is strictly greater than 16.67 ms.
C3_DroppedFrames ==
    Analyzed =>
        overall.dropped_frames =
            Cardinality({i \in 1..Len(commits) : FGt(commits[i].duration, Ms(16670))})

\* Both roots hold a dropped commit, and one commit is exactly 16.67 ms.
C3_Witness ==
    /\ Analyzed
    /\ Len(Roots(data)) = 2
    /\ Len(CommitData(Roots(data)[1])) = 1
    /\ Len(commits) = 3
    /\ FGt(commits[1].duration, Ms(16670))
    /\ commits[2].duration = Ms(16670)
    /\ FGt(commits[3].duration, Ms(16670))
    /\ overall.dropped_frames = 2

\* C4: every cluster has at least 3 commits, all of them above 10 ms and
\* consecutive in the scanned sequence, and the commit before its first and
\* the commit after its last member, when they exist, are at most 10 ms.
C4_ClustersMaximal ==
    Analyzed =>
        /\ Len(overall.clusters) = Len(clusters)
        /\ \A c \in 1..Len(clusters) :
              LET cl == clusters[c]
                  first == cl[1]
                  last == cl[Len(cl)]
              IN /\ Len(cl) >= 3
                 /\ overall.clusters[c].size = Len(cl)
                 /\ \A i \in 1..Len(cl) :
                       /\ cl[i] = first + i - 1
                       /\ cl[i] \in 1..Len(commits)
                       /\ FGt(commits[cl[i]].duration, Ms(10000))
                 /\ first > 1 => FLe(commits[first - 1].duration, Ms(10000))
                 /\ last < Len(commits) => FLe(commits[last + 1].duration, Ms(10000))

\* A cluster of exactly three commits with a cheap commit on either side.
C4_Witness ==
    /\ Analyzed
    /\ Len(commits) = 5
    /\ clusters = <<<<2, 3, 4>>>>
    /\ commits[1].duration = Ms(10000)
    /\ commits[5].duration = Ms(10000)

\* C5: top_components of every CommitInfo has at most 5 entries in
\* non-increasing order of self-time, and they are the 5 largest positive
\* self-time contributions of the commit (all of them when fewer than 5).
C5_TopComponents ==
    \A p \in 1..Len(commits) :
        LET top == [i \in 1..Len(commits[p].top_components) |->
                       commits[p].top_components[i][2]]
            all == PositiveDurs(FlatCommits(CurrentData)[p])
        IN /\ Len(top) <= 5
           /\ Len(top) = Min(5, Len(all))
           /\ \A i \in 1..(Len(top) - 1) : FGe(top[i], top[i + 1])
           /\ \A v \in Range(top) : Count(top, v) <= Count(all, v)
           /\ \A v \in Range(all) :
                 Count(top, v) < Count(all, v) => \A i \in 1..Len(top) : FGe(top[i], v)

\* Six positive contributions given smallest first: they are reordered and
\* one of the smallest is cut.
C5_Witness ==
    /\ Len(commits) = 1
    /\ commits[1].num_components = 6
    /\ Len(commits[1].top_components) = 5
    /\ FGt(commits[1].top_components[1][2], commits[1].top_components[5][2])
    /\ LET all == PositiveDurs(FlatCommits(CurrentData)[1])
       IN FLt(all[1], all[6])

Compared == pc = "compared"

\* The change "+0%" as main prints it.
ZeroPct == "+0%"

\* C6 as stated: comparing a session with an identical copy of itself gives
\* every matched component a render-count change of 0%, a self-time change of
\* 0% and an empty status.
C6_SelfCompareAllZeroPct ==
    (Compared /\ data = after_data) =>
        \A i \in 1..Len(rows) :
            /\ rows[i].render_str = ZeroPct
            /\ rows[i].time_str = ZeroPct
            /\ rows[i].status = ""

\* C6 amended: comparing a session with an identical copy of itself gives
\* every matched component equal render counts and self-times and an empty
\* status; the render-count change is 0% when the render count is positive and
\* the self-time change is 0% when the self-time is positive, and a component
\* that never rendered (count 0, time 0) gets a dash, no percentage.
C6_SelfCompare ==
    (Compared /\ data = after_data) =>
        \A i \in 1..Len(rows) :
            /\ rows[i].status = ""
            /\ rows[i].a_renders = rows[i].b_renders
            /\ rows[i].a_time = rows[i].b_time
            /\ rows[i].render_str = IF rows[i].b_renders > 0 THEN ZeroPct ELSE Dash
            /\ rows[i].time_str = IF FGt(rows[i].b_time, Zero) THEN ZeroPct ELSE Dash

\* A self-comparison with a rendered component and a never-rendered one.
C6_Witness ==
    /\ Compared
    /\ data = after_data
    /\ Len(rows) = 2
    /\ rows[1].b_renders > 0
    /\ rows[2].b_renders = 0

\* The status by the rules in the order eliminated, new, improved, regressed;
\* 0.5 x and 1.5 x the self-time before are products of floats.
StatusInSpecOrder(b_renders, a_renders, b_time, a_time) ==
    IF b_renders > 0 /\ a_renders = 0 THEN "ELIMINATED"
    ELSE IF b_renders = 0 /\ a_renders > 0 THEN "new"
    ELSE IF FGt(b_time, Zero) /\ FLt(a_time, FMul(Ms(500), b_time)) THEN "improved"
    ELSE IF FGt(b_time, Zero) /\ FGt(a_time, FMul(Ms(1500), b_time)) THEN "REGRESSED"
    ELSE ""

\* C7: the status of every comparison row is the first matching rule in the
\* order eliminated, new, improved, regressed, else empty; a component with
\* render_count > 0 before and no entry after is eliminated.
C7_StatusPrecedence ==
    Compared =>
        /\ \A i \in 1..Len(rows) :
              rows[i].status = StatusInSpecOrder(rows[i].b_renders, rows[i].a_renders,
                                                 rows[i].b_time, rows[i].a_time)
        /\ \A i \in 1..Len(before_result.comps) :
              LET c == before_result.comps[i]
              IN (/\ c.render_count > 0
                  /\ ~IsUnknown(c.name)
                  /\ c.name \notin {components[j].name : j \in 1..Len(components)})
                 => \E r \in 1..Len(rows) :
                       rows[r].name = c.name /\ rows[r].status = "ELIMINATED"

\* 'X' rendered before and has no entry after, 'Y' is new.
C7_Witness ==
    /\ Compared
    /\ Len(rows) = 2
    /\ \E i \in 1..2 :
          /\ rows[i].name = "X"
          /\ rows[i].status = "ELIMINATED"
          /\ FGt(rows[i].b_time, Zero)
          /\ rows[3 - i].status = "new"
    /\ "X" \notin {components[j].name : j \in 1..Len(components)}

\* The number of raw commits in the roots that have "commitData".
RawCommitCount(d) ==
    IF ~d.hasRoots THEN 0
    ELSE IntSum([r \in 1..Len(d.roots) |->
                    IF d.roots[r].hasCommitData THEN Len(d.roots[r].commitData) ELSE 0])

\* The fibers listed in the snapshot tables of the roots that have one.
SnapshotFibers(d) ==
    IF ~d.hasRoots THEN {}
    ELSE UNION {{Pairs(d.roots[r].snapshots)[i][1] :
                    i \in 1..Len(Pairs(d.roots[r].snapshots))} :
                r \in {x \in 1..Len(d.roots) : d.roots[x].snapshots.kind # "absent"}}

\* Every key of every map of the trace, snapshot table or duration map, is
\* a whole number for int().
WholeKeys(d) ==
    /\ \A r \in 1..Len(Roots(d)) : ~iter_pairs(Roots(d)[r].snapshots).raised
    /\ \A p \in 1..Len(FlatCommits(d)) :
          /\ ~iter_pairs(FlatCommits(d)[p].fiberSelfDurations).raised
          /\ ~iter_pairs(FlatCommits(d)[p].fiberActualDurations).raised

\* C8: analyze runs to its end on a trace without dataForRoots or with roots
\* without snapshots or commitData, reading a missing field as empty: no
\* missing field makes it raise; with no commit at all total_commits, the
\* duration statistics, dropped_frames and dropped_pct are all 0.
C8_MissingFields ==
    /\ (pc = "aggregate" /\ pos[1] <= Len(Roots(data))) =>
          /\ Roots(data)[pos[1]].hasCommitData
          /\ pos[2] < Len(Roots(data)[pos[1]].commitData)
    /\ WholeKeys(data) =>
          /\ pc # "raised"
          /\ pc # "start" => DOMAIN snapshots = SnapshotFibers(data)
    /\ Analyzed =>
          /\ overall.total_commits = RawCommitCount(data)
          /\ overall.total_commits = 0 =>
                /\ overall.total_duration_ms = Zero
                /\ overall.avg_duration_ms = Zero
                /\ overall.median_duration_ms = Zero
                /\ overall.p95_duration_ms = Zero
                /\ overall.p99_duration_ms = Zero
                /\ overall.max_duration_ms = Zero
                /\ overall.dropped_frames = 0
                /\ overall.dropped_pct = Zero

\* The trace without dataForRoots, analyzed.
C8_Witness ==
    /\ Analyzed
    /\ ~data.hasRoots
    /\ overall.total_commits = 0
    /\ overall.clusters = <<>>

\* C9: the trace with fibers 1 'Button' and 2 'List' and one commit at
\* timestamp 100 with self-durations {1: 5.0, 2: 12.0} gives Button and List a
\* render_count of 1 and self-times 5.0 and 12.0, a commit duration of 17.0,
\* dropped_frames 1, dropped_pct 100 and top_components List, Button.
C9_Scenario ==
    (Analyzed /\ data = NormalizeData(ScenarioTrace)) =>
        /\ Len(components) = 2
        /\ components[1].name = "Button" /\ components[1].fiber_id = 1
        /\ components[1].render_count = 1 /\ components[1].total_self_time = Ms(5000)
        /\ components[2].name = "List" /\ components[2].fiber_id = 2
        /\ components[2].render_count = 1 /\ components[2].total_self_time = Ms(12000)
        /\ Len(commits) = 1
        /\ commits[1].duration = Ms(17000)
        /\ commits[1].timestamp = 100
        /\ overall.dropped_frames = 1
        /\ overall.dropped_pct = FromInt(100)
        /\ commits[1].top_components = <<<<"List", Ms(12000)>>, <<"Button", Ms(5000)>>>>

C9_Witness ==
    /\ Analyzed
    /\ data = NormalizeData(ScenarioTrace)
    /\ overall.total_commits = 1

\* The fiber has no positive self-duration in the first n raw commits.
NeverPositive(d, n, fid) ==
    \A p \in 1..n :
        LET ps == Pairs(FlatCommits(d)[p].fiberSelfDurations)
        IN \A i \in 1..Len(ps) : ps[i][1] = fid => ps[i][2] <= 0

\* C10: after any prefix of the commits every ComponentStats with
\* render_count > 0 has max_self_time <= total_self_time, and an entry that
\* never received a positive self-duration has render_count, total_self_time
\* and max_self_time all 0.
C10_SelfTimeInvariant ==
    \A i \in 1..Len(components) :
        LET c == components[i]
        IN /\ c.render_count > 0 => FLe(c.max_self_time, c.total_self_time)
           /\ NeverPositive(CurrentData, Len(commits), c.fiber_id) =>
                 /\ c.render_count = 0
                 /\ c.total_self_time = Zero
                 /\ c.max_self_time = Zero

\* After the first of two commits: one fiber rendered twice with different
\* self-durations, another has only a negative self-duration so far.
C10_Witness ==
    /\ pc = "aggregate"
    /\ Len(commits) = 1
    /\ pos[1] <= Len(Roots(data))
    /\ \E i, j \in 1..Len(components) :
          /\ components[i].render_count = 2
          /\ components[i].max_self_time = Ms(12000)
          /\ components[i].total_self_time = Ms(17000)
          /\ components[j].render_count = 0
          /\ commits[1].duration = Ms(16000)

\* The self-durations listed for a fiber in the first n raw commits, in order.
SelfDursOf(d, n, fid) ==
    Concat([p \in 1..n |->
               LET ps == Pairs(FlatCommits(d)[p].fiberSelfDurations)
               IN SelectSeq(ps, LAMBDA x : x[1] = fid)])

\* C11: the duration of a commit is the sum of all the self-durations listed
\* in it, zero and negative ones included, added in the order listed, while
\* num_components (the length of the top-components candidate list),
\* render_count, total_self_time and max_self_time count only the
\* self-durations strictly greater than 0.
C11_DurationCountsAll ==
    /\ \A p \in 1..Len(commits) :
          LET raw == FlatCommits(CurrentData)[p]
              ps == Pairs(raw.fiberSelfDurations)
          IN /\ commits[p].duration = SeqSum(DursOf(ps))
             /\ commits[p].num_components = Len(PositiveOf(ps))
    /\ \A i \in 1..Len(components) :
          LET pos_durs == PositiveOf(SelfDursOf(CurrentData, Len(commits),
                                               components[i].fiber_id))
          IN /\ components[i].render_count = Len(pos_durs)
             /\ components[i].total_self_time = SeqSum(pos_durs)
             /\ components[i].max_self_time =
                   IF pos_durs = <<>> THEN Zero ELSE SeqMax(pos_durs)

\* A commit of 5 ms, 0 ms and -1 ms: its duration is 4 ms and one render counts.
C11_Witness ==
    /\ Len(commits) >= 1
    /\ commits[1].duration = Ms(4000)
    /\ commits[1].num_components = 1
    /\ Len(Pairs(FlatCommits(CurrentData)[1].fiberSelfDurations)) = 3
    /\ \E i \in 1..Len(components) :
          components[i].render_count = 1 /\ components[i].total_self_time = Ms(5000)

\* The fibers with a self-duration entry in a raw commit.
CommitSelfFibers(commit) ==
    LET ps == Pairs(commit.fiberSelfDurations)
    IN {ps[i][1] : i \in 1..Len(ps)}

\* The fibers with a self-duration entry in the first n raw commits.
SelfFibers(d, n) ==
    LET flat == FlatCommits(d)
    IN UNION {CommitSelfFibers(flat[p]) : p \in 1..n}

\* The first of the raw commits that lists a self-duration for the fiber.
FirstSelfCommit(flat, fid) ==
    CHOOSE p \in 1..Len(flat) :
        /\ fid \in CommitSelfFibers(flat[p])
        /\ \A q \in 1..(p - 1) : fid \notin CommitSelfFibers(flat[q])

\* The actual durations listed for a fiber in the raw commits from..to.
ActualDursOf(d, from, to, fid) ==
    LET flat == FlatCommits(d)
    IN Concat([q \in 1..(to - from + 1) |->
                  LET ps == Pairs(flat[from + q - 1].fiberActualDurations)
                  IN DursOf(SelectSeq(ps, LAMBDA x : x[1] = fid))])

\* C12: a ComponentStats entry exists only for a fiber with a self-duration
\* entry in some commit processed so far; its total_actual_time and
\* max_actual_time are the sum and the maximum (from 0) of the actual
\* durations listed for the fiber from the commit of its first self-duration
\* on, so an actual duration in an earlier commit is not counted and a fiber
\* seen only in actual-duration maps has no entry.
C12_ActualNeedsEntry ==
    /\ {components[i].fiber_id : i \in 1..Len(components)}
           = SelfFibers(CurrentData, Len(commits))
    /\ \A i \in 1..Len(components) :
          LET fid == components[i].fiber_id
              durs == ActualDursOf(CurrentData,
                                   FirstSelfCommit(FlatCommits(CurrentData), fid),
                                   Len(commits), fid)
          IN /\ components[i].total_actual_time = SeqSum(durs)
             /\ components[i].max_actual_time =
                   IF durs = <<>> THEN Zero ELSE FMax(Zero, SeqMax(durs))

\* Fiber 2 has an actual duration of 9 ms in both commits and its first
\* self-duration in the second: 9 ms are counted.  Fiber 3 has an actual
\* duration only, and no entry.
C12_Witness ==
    /\ Len(commits) = 2
    /\ ActualDursOf(CurrentData, 1, 1, 2) = <<Ms(9000)>>
    /\ ActualDursOf(CurrentData, 2, 2, 2) = <<Ms(9000)>>
    /\ ActualDursOf(CurrentData, 1, 2, 3) # <<>>
    /\ Len(components) = 2
    /\ components[2].fiber_id = 2
    /\ components[2].total_actual_time = Ms(9000)
    /\ components[2].max_actual_time = Ms(9000)

\* The position (from 0) inside its own root of each raw commit, root after root.
OwnIndexes(d) ==
    Concat([r \in 1..Len(Roots(d)) |->
               [i \in 1..Len(CommitData(Roots(d)[r])) |-> i - 1]])

\* C13: the index of each CommitInfo is the position of the commit in the
\* commitData list of its own root, counted from 0 again for every root.
C13_IndexPerRoot ==
    \A p \in 1..Len(commits) : commits[p].index = OwnIndexes(CurrentData)[p]

\* Two roots of two commits each: the indices are 0, 1, 0, 1.
C13_Witness ==
    /\ Analyzed
    /\ Len(Roots(data)) = 2
    /\ Len(commits) = 4
    /\ commits[1].index = 0 /\ commits[2].index = 1
    /\ commits[3].index = 0 /\ commits[4].index = 1

\* The roots whose snapshot table lists the fiber.
RootsWith(d, fid) ==
    {r \in 1..Len(Roots(d)) :
        \E i \in 1..Len(Pairs(Roots(d)[r].snapshots)) :
            Pairs(Roots(d)[r].snapshots)[i][1] = fid}

\* The snapshot listed for the fiber by the last root that lists it.
LastSnap(d, fid) ==
    LET r == CHOOSE x \in RootsWith(d, fid) : \A y \in RootsWith(d, fid) : y <= x
        ps == Pairs(Roots(d)[r].snapshots)
        i == CHOOSE x \in 1..Len(ps) :
                 ps[x][1] = fid /\ \A y \in 1..Len(ps) : ps[y][1] = fid => y <= x
    IN ps[i][2]

\* build_snapshot_map has returned the index of the running analyze().
IndexBuilt == pc # "start" /\ ~build_snapshot_map(CurrentData).raised

\* C14: the snapshot index has one entry for every fiber listed in the
\* snapshot table of some root, and the entry is the snapshot of the last root
\* that lists the fiber, whatever the other roots and the other fibers hold.
C14_LastRootWins ==
    IndexBuilt =>
        /\ DOMAIN snapshots = SnapshotFibers(CurrentData)
        /\ \A fid \in DOMAIN snapshots : RootsWith(CurrentData, fid) # {}
        /\ \A fid \in DOMAIN snapshots : snapshots[fid] = LastSnap(CurrentData, fid)

\* Both roots list fiber 1, under different names; only the first lists
\* fiber 2.
C14_Witness ==
    /\ IndexBuilt
    /\ RootsWith(data, 1) = {1, 2}
    /\ RootsWith(data, 2) = {1}
    /\ snapshots[1] = Pairs(Roots(data)[2].snapshots)[1][2]
    /\ snapshots[1].name # Pairs(Roots(data)[1].snapshots)[1][2].name
    /\ snapshots[2].name = "List"

\* The name the fiber is to get: the display name, else the fallback name,
\* else the placeholder.  build_snapshot_map leaves displayName as it was and
\* has rewritten the name field only where displayName is non-empty.
NameByRule(d, fid) ==
    IF RootsWith(d, fid) = {} THEN "Unknown#" \o ToString(fid)
    ELSE LET snap == LastSnap(d, fid)
         IN IF snap.displayName \notin {Absent, Null, ""} THEN snap.displayName
            ELSE IF snap.name \notin {Absent, Null, ""} THEN snap.name
            ELSE "Unknown#" \o ToString(fid)

\* C15: the name of every ComponentStats entry is the display name of the
\* fiber's snapshot when present and non-empty, else its fallback name when
\* present and non-empty, else 'Unknown#<fiber identity>', also for a fiber
\* without a snapshot.
C15_NameResolution ==
    \A i \in 1..Len(components) :
        components[i].name = NameByRule(CurrentData, components[i].fiber_id)

\* Fiber 1 has an empty display name and the fallback name 'B', fiber 2 the
\* display name 'List', fiber 3 no snapshot.
C15_Witness ==
    /\ Analyzed
    /\ Len(components) = 3
    /\ DOMAIN snapshots = {1, 2}
    /\ snapshots[1].displayName = ""
    /\ components[1].name = "B"
    /\ components[2].name = "List"
    /\ 3 \notin DOMAIN snapshots
    /\ components[3].name = "Unknown#3"

\* The elements of a list-form map that are lists of two or more items.
WellFormed(items) == SelectSeq(items, LAMBDA e : e.isList /\ Len(e.elems) >= 2)

\* The raw commits the loop body has been entered for: the aggregated ones
\* and the one whose maps made iter_pairs raise.
Entered == Len(commits) + (IF pc = "raised" /\ IndexBuilt THEN 1 ELSE 0)

\* C16: for a per-fiber map in list form iter_pairs returns, in the original
\* order, the (integer key, second item) pairs of exactly the elements that
\* are lists of two or more items; every other element is dropped, and no
\* element makes iter_pairs raise, so the duration of the commit is the sum
\* over the kept elements.
C16_MalformedDropped ==
    \A p \in 1..Entered :
        LET m == FlatCommits(CurrentData)[p].fiberSelfDurations
            kept == WellFormed(m.items)
        IN m.kind = "list" =>
              /\ ~iter_pairs(m).raised
              /\ Len(Pairs(m)) = Len(kept)
              /\ \A i \in 1..Len(kept) :
                    /\ Pairs(m)[i][2] = kept[i].elems[2]
                    /\ int(kept[i].elems[1]) = [raised |-> FALSE, value |-> Pairs(m)[i][1]]
              /\ p <= Len(commits)
              /\ commits[p].duration =
                    SeqSum([i \in 1..Len(kept) |-> float(kept[i].elems[2])])

\* The second analyze() has returned.
AfterAnalyzed == session = "after" /\ pc \in {"analyzed", "overall_compared", "compared"}

\* C17: a per-fiber map with distinct fiber identities written as an object
\* keyed by the identities and written as the list of its [identity, value]
\* pairs in the same order normalize to the same sequence of (integer fiber
\* identity, value) pairs, the identities and values in the order of the
\* document, and analyze returns the same component statistics, commits and
\* overall statistics for the two encodings of a trace.
C17_EncodingsAgree ==
    /\ \A p \in 1..Len(FlatCommits(data)) :
          \A m \in {FlatCommits(data)[p].fiberSelfDurations,
                     FlatCommits(data)[p].fiberActualDurations} :
              m.kind = "dict" =>
                  /\ iter_pairs(m) = iter_pairs(ToList(m))
                  /\ ~iter_pairs(m).raised
                  /\ Len(Pairs(m)) = Len(m.items)
                  /\ \A i \in 1..Len(m.items) :
                        /\ Numeral(Pairs(m)[i][1]) = m.items[i].key
                        /\ Pairs(m)[i][2] = m.items[i].val
    /\ (AfterAnalyzed /\ after_data = ListEncoding(data)) =>
          /\ components = before_result.comps
          /\ commits = before_result.commits
          /\ overall = before_result.overall

\* Self-durations {"12": 5.0, "2": 12.0} as an object and as a list: fiber 12
\* comes first in both results.
C17_Witness ==
    /\ AfterAnalyzed
    /\ after_data = ListEncoding(data)
    /\ Len(FlatCommits(data)) = 1
    /\ FlatCommits(data)[1].fiberSelfDurations = DictMap(<<KV(Numeral(12), 5000), KV(Numeral(2), 12000)>>)
    /\ FlatCommits(after_data)[1].fiberSelfDurations = ListMap(<<Pair(12, 5000), Pair(2, 12000)>>)
    /\ Len(components) = 2
    /\ components[1].fiber_id = 12
    /\ components[2].name = "List"
    /\ components[2].total_actual_time = Ms(9000)
    /\ before_result.comps = components

\* The name is an 'Unknown#...' placeholder.
Placeholder(name) == Len(name) >= 8 /\ SubSeq(name, 1, 8) = "Unknown#"

\* The names of the entries of a session that are not placeholders.
ResolvedNames(comps) ==
    {comps[i].name : i \in {j \in 1..Len(comps) : ~Placeholder(comps[j].name)}}

\* The values of one field over the entries of a session with the given name.
FieldOf(comps, name, f) ==
    LET mine == SelectSeq(comps, LAMBDA c : c.name = name)
    IN [i \in 1..Len(mine) |-> mine[i][f]]

\* The entries of one session merged by name as the property states it; the
\* times are added in the order of the entries.
MergedRight(comps) ==
    LET agg == aggregate_by_name(comps)
    IN /\ {agg[i].name : i \in 1..Len(agg)} = ResolvedNames(comps)
       /\ \A i, j \in 1..Len(agg) : i # j => agg[i].name # agg[j].name
       /\ \A i \in 1..Len(agg) :
             LET n == agg[i].name
             IN /\ agg[i].render_count = IntSum(FieldOf(comps, n, "render_count"))
                /\ agg[i].total_self_time = SeqSum(FieldOf(comps, n, "total_self_time"))
                /\ agg[i].total_actual_time = SeqSum(FieldOf(comps, n, "total_actual_time"))
                /\ agg[i].max_self_time = SeqMax(FieldOf(comps, n, "max_self_time"))
                /\ agg[i].max_actual_time = SeqMax(FieldOf(comps, n, "max_actual_time"))

\* C18: within a session the entries that share a resolved name are merged
\* into one whose render_count, total_self_time and total_actual_time are the
\* sums and whose max_self_time and max_actual_time are the maxima; entries
\* named 'Unknown#...' are left out and no comparison row carries such a name.
C18_MergedByName ==
    Compared =>
        /\ MergedRight(before_result.comps)
        /\ MergedRight(components)
        /\ \A r \in 1..Len(rows) :
              /\ ~Placeholder(rows[r].name)
              /\ rows[r].b_renders =
                    IntSum(FieldOf(before_result.comps, rows[r].name, "render_count"))
              /\ rows[r].b_time =
                    SeqSum(FieldOf(before_result.comps, rows[r].name, "total_self_time"))
              /\ rows[r].a_renders = IntSum(FieldOf(components, rows[r].name, "render_count"))
              /\ rows[r].a_time = SeqSum(FieldOf(components, rows[r].name, "total_self_time"))

\* Before: the fibers 1 and 3, both named 'X', rendered 12 ms and 6 ms.
\* After: fiber 4, without a name.  The only row is X with 2 renders and 18 ms.
C18_Witness ==
    /\ Compared
    /\ Len(before_result.comps) = 2
    /\ before_result.comps[1].fiber_id = 1
    /\ before_result.comps[1].total_self_time = Ms(12000)
    /\ before_result.comps[2].fiber_id = 3
    /\ before_result.comps[2].total_self_time = Ms(6000)
    /\ aggregate_by_name(before_result.comps)[1].max_self_time = Ms(12000)
    /\ aggregate_by_name(before_result.comps)[1].total_actual_time = Ms(16000)
    /\ aggregate_by_name(before_result.comps)[1].max_actual_time = Ms(9000)
    /\ Len(components) = 1
    /\ components[1].name = "Unknown#4"
    /\ Len(rows) = 1
    /\ rows[1].name = "X" /\ rows[1].b_renders = 2 /\ rows[1].b_time = Ms(18000)

\* C19: the comparison has exactly one row for every name of the union of
\* the before-names and the after-names; a name of one side only reads as
\* render_count 0 and self-time 0 on the other side.
C19_OuterJoin ==
    Compared =>
        /\ {rows[r].name : r \in 1..Len(rows)}
               = ResolvedNames(before_result.comps) \cup ResolvedNames(components)
        /\ \A r, q \in 1..Len(rows) : r # q => rows[r].name # rows[q].name
        /\ \A r \in 1..Len(rows) :
              /\ rows[r].name \notin ResolvedNames(before_result.comps) =>
                    rows[r].b_renders = 0 /\ rows[r].b_time = Zero
              /\ rows[r].name \notin ResolvedNames(components) =>
                    rows[r].a_renders = 0 /\ rows[r].a_time = Zero

\* 'X' only before and 'Y' only after, both rendered: two rows.
C19_Witness ==
    /\ Compared
    /\ ResolvedNames(before_result.comps) = {"X"}
    /\ ResolvedNames(components) = {"Y"}
    /\ Len(rows) = 2
    /\ \E r \in 1..2 :
          /\ rows[r].name = "X" /\ rows[r].b_renders > 0 /\ rows[r].a_renders = 0
          /\ rows[3 - r].name = "Y" /\ rows[3 - r].b_renders = 0 /\ rows[3 - r].a_renders > 0

\* The key of overall each row of the overall comparison is about.
LabelKey ==
    [l \in {"Total commits", "Total render time", "Avg commit", "Median commit",
            "P95 commit", "P99 commit", "Max commit", "Dropped frames", "Dropped %",
            "Components", "React Compiler"} |->
        CASE l = "Total commits" -> "total_commits"
          [] l = "Total render time" -> "total_duration_ms"
          [] l = "Avg commit" -> "avg_duration_ms"
          [] l = "Median commit" -> "median_duration_ms"
          [] l = "P95 commit" -> "p95_duration_ms"
          [] l = "P99 commit" -> "p99_duration_ms"
          [] l = "Max commit" -> "max_duration_ms"
          [] l = "Dropped frames" -> "dropped_frames"
          [] l = "Dropped %" -> "dropped_pct"
          [] l = "Components" -> "total_components"
          [] l = "React Compiler" -> "compiled_with_forget"]

\* improved below -5, REGRESSED above 5, ~same otherwise, for the change
\* (a - b) / b * 100 of a before value b # 0, in floats.
Classified(b, a) ==
    LET change == FMul(FDiv(FSub(a, b), b), FromInt(100))
    IN IF FLt(change, FromInt(-5)) THEN "improved"
       ELSE IF FGt(change, FromInt(5)) THEN "REGRESSED"
       ELSE "~same"

\* The overall comparison has been made.
OverallCompared == pc \in {"overall_compared", "compared"}

\* The eleven rows are about the eleven metrics, each with the values of the
\* two sessions, and the rows of the given labels are classified whenever
\* their before value is not 0 while no other row has a status.
OverallRowsClassify(labels) ==
    /\ Len(overall_rows) = 11
    /\ {overall_rows[i].label : i \in 1..11} = DOMAIN LabelKey
    /\ \A i \in 1..11 :
          LET row == overall_rows[i]
              b == ValueOf(before_result.overall, LabelKey[row.label])
              a == ValueOf(overall, LabelKey[row.label])
          IN /\ row.bval = before_result.overall[LabelKey[row.label]]
             /\ row.aval = overall[LabelKey[row.label]]
             /\ row.indicator =
                   IF row.label \in labels /\ ~FIsZero(b) THEN Classified(b, a) ELSE ""

\* C20 as stated: total, average, median, p95, p99 and max duration and the
\* dropped-frame count and percentage are classified when their before value
\* is not 0 (improved below -5%, REGRESSED above +5%, else ~same); commit
\* count, component count and compiled count carry no status.
C20_TotalClassified ==
    OverallCompared =>
        OverallRowsClassify({"Total render time", "Avg commit", "Median commit",
                             "P95 commit", "P99 commit", "Max commit",
                             "Dropped frames", "Dropped %"})

\* C20 amended: average, median, p95, p99 and max duration and the
\* dropped-frame count and percentage are classified when their before value
\* is not 0 (improved below -5%, REGRESSED above +5%, else ~same); the total
\* duration, like commit count, component count and compiled count, carries no
\* status.
C20_OverallStatus ==
    OverallCompared =>
        OverallRowsClassify({"Avg commit", "Median commit", "P95 commit", "P99 commit",
                             "Max commit", "Dropped frames", "Dropped %"})

\* Before: commits of 20 ms and 19 ms; after: 21 ms and 21 ms.  The median goes
\* from 20 to 21 (+5%, ~same), the average from 19.5 to 21 (REGRESSED), the
\* total from 39 to 42 without a status.
C20_Witness ==
    /\ OverallCompared
    /\ before_result.overall.total_duration_ms = Ms(39000)
    /\ overall.total_duration_ms = Ms(42000)
    /\ \E i, j, k \in 1..Len(overall_rows) :
          /\ overall_rows[i].label = "Median commit"
          /\ overall_rows[i].bval = Ms(20000) /\ overall_rows[i].aval = Ms(21000)
          /\ overall_rows[i].indicator = "~same"
          /\ overall_rows[j].label = "Avg commit"
          /\ overall_rows[j].indicator = "REGRESSED"
          /\ overall_rows[k].label = "Total render time"
          /\ overall_rows[k].indicator = ""

\* C21: a second analyze() of the document the first one has processed returns
\* the overall statistics, the component statistics and the commit sequence
\* of the first one: nothing of the first run, neither its collections nor
\* its rewriting of the snapshots, shows in the second.
C21_AnalyzeTwice ==
    (pc = "analyzed" /\ session = "again") =>
        /\ overall = before_result.overall
        /\ components = before_result.comps
        /\ commits = before_result.commits

\* The second run is over, of a trace whose first root named fiber 1 only by
\* "name" before the first run rewrote it, with three components and a commit.
C21_Witness ==
    /\ pc = "analyzed"
    /\ session = "again"
    /\ Len(components) = 3
    /\ Len(commits) = 1
    /\ components[1].name = "B"
    /\ components[1].render_count = 1
    /\ components[3].name = UnknownName(3)
    /\ overall.total_components = 3

\* C22: each call percentile(p) analyze makes, over n >= 1 sorted durations,
\* returns the duration at index min(floor(p / 100 x n), n - 1), counted
\* from 0, of the ascending-sorted list, a duration of the list and never a
\* value between two of them; with no duration it returns 0.
C22_NearestRank ==
    (pc = "analyzed" /\ percentile_call.called) =>
        LET n == Len(all_durations)
        IN /\ \A i \in 1..(n - 1) : FLe(all_durations[i], all_durations[i + 1])
           /\ \A p \in PercentileArgs :
                  percentile_call.value[p] =
                      IF n = 0 THEN Zero
                      ELSE all_durations[Min((p * n) \div 100, n - 1) + 1]

\* 50 commits of 1 ms to 50 ms, listed in falling order: the median is the
\* duration at index 25, p95 the one at index 47 and p99 the one at index 49.
C22_Witness ==
    /\ pc = "analyzed"
    /\ percentile_call.called
    /\ Len(all_durations) = 50
    /\ percentile_call.value[50] = Ms(26000)
    /\ percentile_call.value[95] = Ms(48000)
    /\ percentile_call.value[99] = Ms(50000)

\* The commits at the positions a to b are a maximal run of commits above
\* 10 ms.
MaximalRun(cs, a, b) ==
    /\ a <= b
    /\ \A i \in a..b : FGt(cs[i].duration, Ms(10000))
    /\ a > 1 => FLe(cs[a - 1].duration, Ms(10000))
    /\ b < Len(cs) => FLe(cs[b + 1].duration, Ms(10000))

\* C23: every maximal run of 3 or more consecutive commits above 10 ms is
\* one cluster, exactly once, also when the run ends with the last commit;
\* a maximal run of 1 or 2 commits is no cluster; the clusters follow one
\* another in scan order and share no commit.
C23_ClustersComplete ==
    Analyzed =>
        /\ \A a, b \in 1..Len(commits) :
              MaximalRun(commits, a, b) =>
                  Count(clusters, [i \in 1..(b - a + 1) |-> a + i - 1]) =
                      IF b - a + 1 >= 3 THEN 1 ELSE 0
        /\ \A c \in 1..(Len(clusters) - 1) :
              clusters[c][Len(clusters[c])] < clusters[c + 1][1]
        /\ Len(overall.clusters) = Len(clusters)

\* Two runs of three commits, the second one ending the sequence, and both
\* are reported, in scan order.
C23_Witness ==
    /\ Analyzed
    /\ Len(commits) = 7
    /\ commits[4].duration = Ms(10000)
    /\ clusters = <<<<1, 2, 3>>, <<5, 6, 7>>>>
    /\ Len(overall.clusters) = 2
    /\ overall.clusters[2].size = 3

\* The positive self-time entries of a raw commit, in the order listed.
PositivePairs(commit) ==
    SelectSeq(Pairs(commit.fiberSelfDurations), LAMBDA x : FGt(float(x[2]), Zero))

\* The place of entry i among the entries ps when larger self-times go first
\* and equal ones stay in the order listed.
StableRank(ps, i) ==
    1 + Cardinality({j \in 1..Len(ps) :
                        \/ FGt(float(ps[j][2]), float(ps[i][2]))
                        \/ float(ps[j][2]) = float(ps[i][2]) /\ j < i})

\* C24: positive contributions of one commit with equal self-time appear in
\* top_components in the order they are listed in fiberSelfDurations, and of
\* a tie across the cut at 5 the entries listed first are kept: entry k of
\* top_components is the contribution of stable rank k.
C24_StableTies ==
    Analyzed =>
        LET flat == FlatCommits(CurrentData)
        IN \A p \in 1..Len(commits) :
               LET ps == PositivePairs(flat[p])
                   top == commits[p].top_components
               IN /\ Len(top) = Min(5, Len(ps))
                  /\ \A i \in 1..Len(ps) :
                        StableRank(ps, i) <= 5 =>
                            top[StableRank(ps, i)] =
                                <<components[FindComp(components, ps[i][1])].name,
                                  float(ps[i][2])>>

\* Five contributions of 5 ms followed by one of 12 ms: the last one comes
\* first, the first four of the tie follow in the order listed and the
\* fifth is cut.
C24_Witness ==
    /\ Analyzed
    /\ Len(commits) = 1
    /\ commits[1].num_components = 6
    /\ commits[1].top_components =
           <<<<UnknownName(6), Ms(12000)>>, <<UnknownName(1), Ms(5000)>>,
             <<UnknownName(2), Ms(5000)>>, <<UnknownName(3), Ms(5000)>>,
             <<UnknownName(4), Ms(5000)>>>>

\* C25: dropped_frames is the sum of the counts of the buckets "17-33ms" and
\* "34+ms": every commit above 16.67 ms is counted in one of the two, and no
\* commit of the bucket "11-16ms" or of a lower one is a dropped frame.
C25_DroppedAreUpperBuckets ==
    Analyzed =>
        /\ overall.dropped_frames =
               overall.duration_buckets["17-33ms"] + overall.duration_buckets["34+ms"]
        /\ \A i \in 1..Len(commits) :
              FGt(commits[i].duration, Ms(16670)) <=>
                  BucketOf(commits[i].duration) \subseteq {"17-33ms", "34+ms"}

\* C26: every cluster of overall["clusters"] has start_commit <= end_commit
\* and size = end_commit - start_commit + 1, also when its run of commits
\* goes on from the last commits of one root into the first of the next.
C26_ClusterSpan ==
    Analyzed =>
        \A c \in 1..Len(overall.clusters) :
            LET cl == overall.clusters[c]
            IN /\ cl.start_commit <= cl.end_commit
               /\ cl.size = cl.end_commit - cl.start_commit + 1

\* No self-duration listed in the trace is negative.
NoNegative(d) ==
    \A p \in 1..Len(FlatCommits(d)) :
        LET ps == Pairs(FlatCommits(d)[p].fiberSelfDurations)
        IN \A i \in 1..Len(ps) : ps[i][2] >= 0

\* The self-durations listed in the trace as floats, commit after commit.
AllSelfDurs(d) ==
    Concat([p \in 1..Len(FlatCommits(d)) |->
               DursOf(Pairs(FlatCommits(d)[p].fiberSelfDurations))])

RECURSIVE LowExp(_)
\* The lowest exponent of a sequence of floats.
LowExp(fs) ==
    IF fs = <<>> THEN 0 ELSE Min(Head(fs).e, LowExp(Tail(fs)))

RECURSIVE ExactSum(_, _)
\* The sum of floats that are not negative, without any rounding, as a
\* whole number of units of 2^low.
ExactSum(fs, low) ==
    IF fs = <<>> THEN <<>>
    ELSE NAdd(IF FIsZero(Head(fs)) THEN <<>> ELSE NShl(Head(fs).m, Head(fs).e - low),
              ExactSum(Tail(fs), low))

\* The commit durations and the total_self_time of the entries.
Durations == [p \in 1..Len(commits) |-> commits[p].duration]
SelfTimes == [i \in 1..Len(components) |-> components[i].total_self_time]

\* The render_count of the entries and the num_components of the commits
\* have the same sum.
RendersConserved ==
    IntSum([i \in 1..Len(components) |-> components[i].render_count]) =
        IntSum([p \in 1..Len(commits) |-> commits[p].num_components])

\* C27 as stated: after analyze the commit durations and the total_self_time
\* of the ComponentStats entries have the same sum whenever the trace lists no
\* negative self-duration, and for any trace the render_count of the entries
\* and the num_components of the commits have the same sum.
C27_Conservation ==
    Analyzed =>
        /\ NoNegative(CurrentData) =>
               LET low == LowExp(Durations \o SelfTimes)
               IN ExactSum(Durations, low) = ExactSum(SelfTimes, low)
        /\ RendersConserved

\* C27 amended: after analyze of a trace without a negative self-duration
\* the sum of the commit durations and the sum of the total_self_time of the
\* entries differ by no more than (N - 1) x 2^-52 times the sum of the
\* self-durations listed, N being their number (the float additions round);
\* and for any trace the render_count of the entries and the num_components
\* of the commits have the same sum.
C27_ConservationRounded ==
    Analyzed =>
        /\ NoNegative(CurrentData) =>
               LET all == AllSelfDurs(CurrentData)
                   low == LowExp(Durations \o SelfTimes \o all)
                   d == ExactSum(Durations, low)
                   t == ExactSum(SelfTimes, low)
                   gap == IF NCmp(d, t) >= 0 THEN NSub(d, t) ELSE NSub(t, d)
               IN NCmp(NShl(gap, 52),
                       NMulSmall(ExactSum(all, low), Max(Len(all) - 1, 0))) <= 0
        /\ RendersConserved

\* One commit lists 0.03 ms, 0.29 ms and 0.18 ms for three fibers: its
\* duration is the float below 0.5 ms, which is not the sum of the three
\* total_self_time.
C27_Witness ==
    /\ Analyzed
    /\ NoNegative(data)
    /\ Len(commits) >= 1
    /\ commits[1].num_components = 3
    /\ FLt(commits[1].duration, Ms(500))
    /\ FGt(commits[1].duration, Ms(499))
    /\ Len(components) = 3
    /\ LET low == LowExp(Durations \o SelfTimes)
       IN ExactSum(Durations, low) # ExactSum(SelfTimes, low)

\* render_count is 0 exactly when total_self_time is 0, for every entry.
RendersIffTime(comps) ==
    \A i \in 1..Len(comps) :
        comps[i].render_count = 0 <=> FIsZero(comps[i].total_self_time)

\* C28: render_count = 0 if and only if total_self_time = 0, for every
\* ComponentStats entry analyze() builds and for every per-name aggregate of
\* match_components; so for every name of the two sessions the status by the
\* rules in the order of the code (eliminated, improved, regressed, new) is
\* the status by the order eliminated, new, improved, regressed.
C28_RendersIffTime ==
    /\ RendersIffTime(components)
    /\ Compared =>
          LET before == aggregate_by_name(before_result.comps)
              after == aggregate_by_name(components)
          IN /\ RendersIffTime(before_result.comps)
             /\ RendersIffTime(before)
             /\ RendersIffTime(after)
             /\ \A n \in AllNames(before_result.comps, components) :
                   LET b == GetName(before, n)
                       a == GetName(after, n)
                   IN Status(RendersOf(b), RendersOf(a), TimeOf(b), TimeOf(a)) =
                          StatusInSpecOrder(RendersOf(b), RendersOf(a), TimeOf(b), TimeOf(a))

\* 'X' is listed before with a self-duration of 0 only, so it has an entry
\* with no render and no self-time, and it renders after: it is new.
C28_Witness ==
    /\ Compared
    /\ Len(before_result.comps) = 1
    /\ before_result.comps[1].name = "X"
    /\ before_result.comps[1].render_count = 0
    /\ before_result.comps[1].total_self_time = Zero
    /\ Len(rows) = 1
    /\ rows[1].a_renders > 0
    /\ FGt(rows[1].a_time, Zero)
    /\ rows[1].status = "new"

\* The name and the optimizer flag of every entry are those of the snapshot
\* the last root lists for its fiber, and the index holds every listed fiber
\* as soon as one commit or one entry exists.
FromFinalIndex ==
    /\ (commits # <<>> \/ components # <<>>) =>
           /\ pc # "start"
           /\ DOMAIN snapshots = SnapshotFibers(CurrentData)
    /\ \A i \in 1..Len(components) :
          LET fid == components[i].fiber_id
          IN /\ components[i].name = NameByRule(CurrentData, fid)
             /\ components[i].compiled_with_forget =
                    IF RootsWith(CurrentData, fid) = {} THEN FALSE
                    ELSE LastSnap(CurrentData, fid).compiledWithForget

\* C29: the snapshot index over all roots is complete before the first
\* commit is aggregated, so an entry created by a commit of an earlier root
\* has the name and the optimizer flag of the snapshot of the last root that
\* lists its fiber; and an entry, once created, keeps its fiber, its name
\* and its flag in every later step of the run.
C29_NameFromFinalIndex ==
    /\ []FromFinalIndex
    /\ [][\A i \in 1..Len(components) :
             i <= Len(components') =>
                 /\ components'[i].fiber_id = components[i].fiber_id
                 /\ components'[i].name = components[i].name
                 /\ components'[i].compiled_with_forget =
                        components[i].compiled_with_forget]_vars

\* The commit of the first root has been aggregated, and fiber 1, which both
\* roots list, has the name and the flag of the second root; a later commit
\* is still to come.
C29_Witness ==
    /\ pc = "aggregate"
    /\ Len(Roots(data)) = 2
    /\ Len(commits) = 1
    /\ pos = <<2, 0>>
    /\ RootsWith(data, 1) = {1, 2}
    /\ Len(components) = 3
    /\ components[1].fiber_id = 1
    /\ components[1].name = "B"
    /\ components[1].compiled_with_forget
    /\ Pairs(Roots(data)[1].snapshots)[1][2].name = "A"
    /\ ~Pairs(Roots(data)[1].snapshots)[1][2].compiledWithForget

\* Snapshot n is snapshot o with its name field set to the resolved name: the
\* display name when there is a non-empty one, else the name, None when the
\* name is missing.
NameResolved(o, n) ==
    /\ n.displayName = o.displayName
    /\ n.compiledWithForget = o.compiledWithForget
    /\ n.name = IF o.displayName \notin {Absent, Null, ""} THEN o.displayName
                ELSE IF o.name = Absent THEN Null
                ELSE o.name

\* Map n is the snapshot table o with the name of each listed snapshot
\* resolved and nothing else changed.
TableResolved(o, n) ==
    /\ n.kind = o.kind
    /\ Len(n.items) = Len(o.items)
    /\ \A i \in 1..Len(o.items) :
          IF o.kind = "dict"
          THEN /\ n.items[i].key = o.items[i].key
               /\ NameResolved(o.items[i].val, n.items[i].val)
          ELSE /\ n.items[i].isList = o.items[i].isList
               /\ Len(n.items[i].elems) = Len(o.items[i].elems)
               /\ \A k \in 1..Len(o.items[i].elems) :
                     IF k = 2 /\ o.items[i].isList
                     THEN NameResolved(o.items[i].elems[k], n.items[i].elems[k])
                     ELSE n.items[i].elems[k] = o.items[i].elems[k]

\* The roots in front of the first one whose snapshot table has a key that is
\* no whole number: the tables build_snapshot_map gets through.
RootsRead(d) ==
    {r \in 1..Len(d.roots) : \A q \in 1..r : ~iter_pairs(d.roots[q].snapshots).raised}

\* Document n is document o with the names of its snapshots resolved: the
\* roots, their commits and every other field are the same.  The tables
\* from a key that is no whole number on are left as they were.
OnlyNamesResolved(o, n) ==
    /\ n.hasRoots = o.hasRoots
    /\ Len(n.roots) = Len(o.roots)
    /\ \A r \in 1..Len(o.roots) :
          /\ n.roots[r].hasCommitData = o.roots[r].hasCommitData
          /\ n.roots[r].commitData = o.roots[r].commitData
          /\ IF r \in RootsRead(o)
             THEN TableResolved(o.roots[r].snapshots, n.roots[r].snapshots)
             ELSE n.roots[r].snapshots = o.roots[r].snapshots

\* C30: analyze changes the trace document in one way only: the name field
\* of each snapshot becomes its resolved name (display name, else name); the
\* commits with their timestamps and duration maps and the other fields of
\* the snapshots stay as they were, in every step of the run.
C30_OnlyNamesWritten ==
    [][/\ pc = "start" => OnlyNamesResolved(data, data')
       /\ pc # "start" => data' = data
       /\ after_data' = after_data]_vars

\* The document after build_snapshot_map: the snapshot of fiber 1, with
\* display name 'A' and name 'B' in the input, now has the name 'A', beside
\* an untouched commit.
C30_Witness ==
    /\ pc = "aggregate"
    /\ Len(Roots(data)) = 1
    /\ Len(Pairs(Roots(data)[1].snapshots)) = 2
    /\ Pairs(Roots(data)[1].snapshots)[1][2] = Snap("A", "A", TRUE)
    /\ Pairs(Roots(data)[1].snapshots)[2][2] = Snap("List", "List", FALSE)
    /\ CommitData(Roots(data)[1]) = <<SnapCommit>>
====
